---- MODULE Spec2Model ----
(***************************************************************************)
(* Consensus core of QuantumSecureToken: the reputation ledger             *)
(* (src/src/consensus/reputation.rs), the proposal verifier and the voting *)
(* coordinator (src/src/consensus/block_proposal.rs).                      *)
(*                                                                         *)
(* Scores are f32 in the code.  Every score the ledger operations below    *)
(* produce from the default configuration is a small integer, which f32    *)
(* holds exactly, so scores are integers here.  The approval percentage of *)
(* a tally is a genuine f32 quotient and is computed bit-exactly (see      *)
(* F32Div, F32Mul).  Time is the monotonic clock in seconds.               *)
(***************************************************************************)
EXTENDS Integers, Sequences, FiniteSets, TLC

VARIABLES
    now,                \* Instant::now(), seconds on the monotonic clock
    reputations,        \* ReputationSystem.reputations: id -> ValidatorReputation
    directory,          \* ValidatorSet behind VotingCoordinator.validators
    current_votes,      \* VotingCoordinator.current_votes: hash -> Seq(ProposalVote)
    approval_threshold, \* VotingCoordinator.approval_threshold
    accepted,           \* history: the votes accepted and not cleared since
    last,               \* the most recent call, the record it found, its result
    budget,             \* state-changing calls the run may still make
    threads,            \* the threads inside the core: position, locks held, result
    poisoned,           \* the locks a panicking writer has poisoned
    registry,           \* NonceRegistry.registry: address -> last nonce accepted
    validated           \* history: the transactions validate has accepted

vars == <<now, reputations, directory, current_votes, approval_threshold, accepted,
          last, budget, threads, poisoned, registry, validated>>

-----------------------------------------------------------------------------
(* Bounds of the model *)

\* calls in one run of the ledger specification
MaxSteps == 5

\* validator ids the ledger specification uses
IDs == {"v1", "v2"}

\* Option<T>: None is the empty sequence, Some(x) the sequence of x alone
None == <<>>
Some(x) == <<x>>
Unwrap(o) == o[1]

\* an f32 argument: a number, or f32::NAN
F32(x) == [nan |-> FALSE, val |-> x]
NaN == [nan |-> TRUE, val |-> 0]

-----------------------------------------------------------------------------
(* ReputationConfig::default *)

valid_block_points == 2
invalid_block_penalty == 10
correct_vote_points == 1
incorrect_vote_penalty == 5
timeout_penalty == 3
double_vote_penalty == 20
offline_penalty == 5
back_online_points == 1
ban_threshold == 15
initial_ban_duration == 3600

ReputationAction ==
    {"ValidBlockProposed", "InvalidBlockProposed", "CorrectVote", "IncorrectVote",
     "Timeout", "DoubleVote", "Offline", "BackOnline", "InvalidMessage",
     "UnauthorizedProposal"}

-----------------------------------------------------------------------------
(* ValidatorReputation *)

Max(a, b) == IF a >= b THEN a ELSE b
Min(a, b) == IF a <= b THEN a ELSE b

\* ValidatorReputation::new at time t
NewReputation(t) ==
    [score |-> 50,
     successful_proposals |-> 0,
     invalid_proposals |-> 0,
     correct_votes |-> 0,
     incorrect_votes |-> 0,
     timeouts |-> 0,
     double_votes |-> 0,
     last_seen |-> t,
     is_banned |-> FALSE,
     banned_until |-> None]

\* a record that does not note when the validator was seen
update_last_seen_never(rep, t) == rep

\* ValidatorReputation::update_last_seen
update_last_seen(rep, t) == [rep EXCEPT !.last_seen = t]

\* ValidatorReputation::is_offline: last_seen.elapsed() > threshold
is_offline(rep, threshold, t) == t - rep.last_seen > threshold

\* a ban that leaves the score where the clamp put it
ban_no_floor(rep, duration, t) ==
    [rep EXCEPT !.is_banned = TRUE, !.banned_until = Some(t + duration)]

\* a ban that never ends earlier than the ban before it
ban_extend_only(rep, duration, t) ==
    [rep EXCEPT !.is_banned = TRUE,
                !.banned_until =
                    IF rep.banned_until # None /\ Unwrap(rep.banned_until) > t + duration
                    THEN rep.banned_until
                    ELSE Some(t + duration),
                !.score = Max(rep.score, 10)]

\* ValidatorReputation::ban
ban(rep, duration, t) ==
    [rep EXCEPT !.is_banned = TRUE,
                !.banned_until = Some(t + duration),
                !.score = Max(rep.score, 10)]

\* an expiry check that ends every ban it finds
check_ban_status_always(rep, t) ==
    IF rep.banned_until # None
    THEN [rep EXCEPT !.is_banned = FALSE, !.banned_until = None]
    ELSE rep

\* a ban that is still running at the instant banned_until
check_ban_status_strict(rep, t) ==
    IF rep.banned_until # None /\ t > Unwrap(rep.banned_until)
    THEN [rep EXCEPT !.is_banned = FALSE, !.banned_until = None]
    ELSE rep

\* ValidatorReputation::check_ban_status
check_ban_status(rep, t) ==
    IF rep.banned_until # None /\ t >= Unwrap(rep.banned_until)
    THEN [rep EXCEPT !.is_banned = FALSE, !.banned_until = None]
    ELSE rep

-----------------------------------------------------------------------------
(* ReputationSystem *)

\* a match that fines a double vote like an incorrect vote
AdjustmentMildDoubleVote(action) ==
    CASE action \in {"ValidBlockProposed"} -> valid_block_points
      [] action \in {"InvalidBlockProposed", "UnauthorizedProposal"} ->
            0 - invalid_block_penalty
      [] action \in {"CorrectVote", "BackOnline"} -> correct_vote_points
      [] action \in {"IncorrectVote", "InvalidMessage", "DoubleVote", "Offline"} ->
            0 - incorrect_vote_penalty
      [] action \in {"Timeout"} -> 0 - timeout_penalty

\* the match of update_reputation: the signed adjustment of an action
Adjustment(action) ==
    CASE action = "ValidBlockProposed" -> valid_block_points
      [] action = "InvalidBlockProposed" -> 0 - invalid_block_penalty
      [] action = "CorrectVote" -> correct_vote_points
      [] action = "IncorrectVote" -> 0 - incorrect_vote_penalty
      [] action = "Timeout" -> 0 - timeout_penalty
      [] action = "DoubleVote" -> 0 - double_vote_penalty
      [] action = "Offline" -> 0 - offline_penalty
      [] action = "BackOnline" -> back_online_points
      [] action = "InvalidMessage" -> 0 - incorrect_vote_penalty
      [] action = "UnauthorizedProposal" -> 0 - invalid_block_penalty

\* a match that forgets the counter of the double votes
CountActionNoDouble(rep, action) ==
    CASE action = "ValidBlockProposed" ->
            [rep EXCEPT !.successful_proposals = @ + 1]
      [] action = "InvalidBlockProposed" ->
            [rep EXCEPT !.invalid_proposals = @ + 1]
      [] action = "CorrectVote" -> [rep EXCEPT !.correct_votes = @ + 1]
      [] action = "IncorrectVote" -> [rep EXCEPT !.incorrect_votes = @ + 1]
      [] action = "Timeout" -> [rep EXCEPT !.timeouts = @ + 1]
      [] OTHER -> rep

\* the match of update_reputation: the counter an action increments
CountAction(rep, action) ==
    CASE action = "ValidBlockProposed" ->
            [rep EXCEPT !.successful_proposals = @ + 1]
      [] action = "InvalidBlockProposed" ->
            [rep EXCEPT !.invalid_proposals = @ + 1]
      [] action = "CorrectVote" -> [rep EXCEPT !.correct_votes = @ + 1]
      [] action = "IncorrectVote" -> [rep EXCEPT !.incorrect_votes = @ + 1]
      [] action = "Timeout" -> [rep EXCEPT !.timeouts = @ + 1]
      [] action = "DoubleVote" -> [rep EXCEPT !.double_votes = @ + 1]
      [] OTHER -> rep

\* a clamp without the upper end
ClampScoreNoCap(x) == Max(x, 0)

\* .max(0.0).min(100.0)
ClampScore(x) == Min(Max(x, 0), 100)

\* a score taken as it comes
ClampInputUnclamped(x) == IF x.nan THEN 0 ELSE x.val

\* f32::max returns the other operand when one is NaN
ClampInput(x) == IF x.nan THEN ClampScore(0) ELSE ClampScore(x.val)

\* a multiplier that adds the infractions instead of multiplying them
MultFactorSum(rep) == 1 + rep.double_votes + rep.invalid_proposals

\* (1.0 + double_votes as f32) * (1.0 + invalid_proposals as f32), as u32
MultFactor(rep) == (1 + rep.double_votes) * (1 + rep.invalid_proposals)

\* a ban condition that forgets the sign of the adjustment
ShouldBanAnyDelta(adjustment, score) == score < ban_threshold

\* the ban condition of update_reputation
ShouldBan(adjustment, score) == adjustment < 0 /\ score < ban_threshold

\* update_reputation from the adjustment on, for a record that is not banned
ApplyAction(rep, action, t) ==
    LET counted == CountAction(rep, action)
        adjustment == Adjustment(action)
        scored == [counted EXCEPT !.score = ClampScore(counted.score + adjustment)]
    IN  IF ShouldBan(adjustment, scored.score)
        THEN ban(scored, initial_ban_duration * MultFactor(scored), t)
        ELSE scored

\* update_reputation on the record of a registered validator:
\* the result and the record afterwards
UpdateRecord(rep, action, t) ==
    LET seen == update_last_seen(rep, t)
        checked == IF seen.is_banned THEN check_ban_status(seen, t) ELSE seen
    IN  IF checked.is_banned
        THEN [res |-> "Banned", rep |-> checked]
        ELSE [res |-> "Ok", rep |-> ApplyAction(checked, action, t)]

\* a return of the score as it was clamped, before a ban floors it
ReturnedScoreBeforeFloor(rep, action, t) ==
    ClampScore(check_ban_status(rep, t).score + Adjustment(action))

\* Ok(reputation.score): the score a successful update_reputation returns
ReturnedScore(rep, action, t) == UpdateRecord(rep, action, t).rep.score

Registered == DOMAIN reputations

\* an update that registers an unknown id on the fly
LedgerAfterUpsert(reps, id, action, t) ==
    [x \in DOMAIN reps \cup {id} |->
        IF x = id
        THEN UpdateRecord(IF id \in DOMAIN reps THEN reps[id] ELSE NewReputation(t),
                          action, t).rep
        ELSE reps[x]]

\* the ledger after update_reputation(id, action), whatever it returns
LedgerAfterUpdate(reps, id, action, t) ==
    IF id \in DOMAIN reps
    THEN [reps EXCEPT ![id] = UpdateRecord(reps[id], action, t).rep]
    ELSE reps

\* what update_reputation(id, action) returns
UpdateResult(reps, id, action, t) ==
    IF id \in DOMAIN reps THEN UpdateRecord(reps[id], action, t).res
    ELSE "NotFound"

\* the record of a call: pre is the ledger record of id before the call
Call(op, id, arg, res) ==
    [op |-> op, id |-> id, arg |-> arg, res |-> res,
     pre |-> IF id \in Registered THEN Some(reputations[id]) ELSE None]

NoVoting == UNCHANGED <<directory, current_votes, approval_threshold, accepted>>

\* every call a single caller makes that changes the ledger, the votes or the
\* clock uses up one unit of the run's budget
Step ==
    /\ budget > 0
    /\ budget' = budget - 1
    /\ UNCHANGED <<threads, poisoned, registry, validated>>

\* an add_validator that starts the record of a known validator afresh
add_validator_reset(id) ==
    /\ Step
    /\ reputations' =
         [x \in Registered \cup {id} |->
            IF x = id THEN NewReputation(now) ELSE reputations[x]]
    /\ last' = Call("add_validator", id, None, "Ok")
    /\ UNCHANGED now
    /\ NoVoting

\* ReputationSystem::add_validator
add_validator(id) ==
    /\ Step
    /\ reputations' =
         IF id \in Registered THEN reputations
         ELSE [x \in Registered \cup {id} |->
                 IF x = id THEN NewReputation(now) ELSE reputations[x]]
    /\ last' = Call("add_validator", id, None, "Ok")
    /\ UNCHANGED now
    /\ NoVoting

\* ReputationSystem::update_reputation
update_reputation(id, action) ==
    /\ Step
    /\ reputations' = LedgerAfterUpdate(reputations, id, action, now)
    /\ last' = Call("update_reputation", id, action,
                    UpdateResult(reputations, id, action, now))
    /\ UNCHANGED now
    /\ NoVoting

\* ReputationSystem::ban_validator
ban_validator(id, duration) ==
    /\ Step
    /\ IF id \in Registered
       THEN /\ reputations' = [reputations EXCEPT ![id] = ban(@, duration, now)]
            /\ last' = Call("ban_validator", id, duration, "Ok")
       ELSE /\ UNCHANGED reputations
            /\ last' = Call("ban_validator", id, duration, "NotFound")
    /\ UNCHANGED now
    /\ NoVoting

\* ReputationSystem::set_reputation
set_reputation(id, score) ==
    /\ Step
    /\ IF id \in Registered
       THEN /\ reputations' = [reputations EXCEPT ![id].score = ClampInput(score)]
            /\ last' = Call("set_reputation", id, score, "Ok")
       ELSE /\ UNCHANGED reputations
            /\ last' = Call("set_reputation", id, score, "NotFound")
    /\ UNCHANGED now
    /\ NoVoting

\* a collection that does not leave out the banned validators
OfflineIdsWithBanned(reps, threshold, t) ==
    {id \in DOMAIN reps : is_offline(reps[id], threshold, t)}

\* the ids update_offline_status collects before it updates any
OfflineIds(reps, threshold, t) ==
    {id \in DOMAIN reps : is_offline(reps[id], threshold, t) /\ ~reps[id].is_banned}

\* ReputationSystem::update_offline_status
update_offline_status(threshold) ==
    /\ Step
    /\ reputations' =
         [id \in Registered |->
            IF id \in OfflineIds(reputations, threshold, now)
            THEN UpdateRecord(reputations[id], "Offline", now).rep
            ELSE reputations[id]]
    /\ last' = Call("update_offline_status", "", threshold, "Ok")
    /\ UNCHANGED now
    /\ NoVoting

\* a query that reports every unknown id as banned
is_banned_or_unknown(reps, id) == IF id \in DOMAIN reps THEN reps[id].is_banned ELSE TRUE

\* ReputationSystem::is_banned
is_banned(reps, id) == IF id \in DOMAIN reps THEN reps[id].is_banned ELSE FALSE

\* ReputationSystem::get_active_validators, as the ids of the records returned
get_active_validators(reps) == {id \in DOMAIN reps : ~reps[id].is_banned}

\* the monotonic clock advances
Tick(d) ==
    /\ Step
    /\ now' = now + d
    /\ last' = Call("tick", "", d, "Ok")
    /\ UNCHANGED reputations
    /\ NoVoting

-----------------------------------------------------------------------------
(* The ledger specification: ReputationSystem::new, then any calls *)

\* scores handed to set_reputation
ScoreInputs == {F32(0 - 5), F32(12), F32(150), NaN}

\* durations handed to ban_validator
BanDurations == {0, initial_ban_duration \div 2}

\* steps of the clock between calls
TickSteps == {initial_ban_duration \div 2, 3 * initial_ban_duration}

\* thresholds handed to update_offline_status
OfflineThresholds == {initial_ban_duration}

NoCall == Call("new", "", None, "Ok")

EmptyMap == [x \in {} |-> None]

\* no thread is inside the core: every call is made by one caller
NoThreads == EmptyMap

\* no holder of a write guard has panicked: both locks can be acquired
NoPanics == poisoned = {}

\* NonceRegistry::new, and no transaction validated yet
NoTransactions == registry = EmptyMap /\ validated = {}

InitLedger ==
    /\ now = 0
    /\ reputations = EmptyMap
    /\ directory = EmptyMap
    /\ current_votes = EmptyMap
    /\ accepted = {}
    /\ approval_threshold = 66
    /\ last = NoCall
    /\ budget = MaxSteps
    /\ threads = NoThreads
    /\ NoPanics
    /\ NoTransactions

NextLedger ==
    \/ \E id \in IDs : add_validator(id)
    \/ \E id \in IDs, action \in ReputationAction : update_reputation(id, action)
    \/ \E id \in IDs, duration \in BanDurations : ban_validator(id, duration)
    \/ \E id \in IDs, score \in ScoreInputs : set_reputation(id, score)
    \/ \E threshold \in OfflineThresholds : update_offline_status(threshold)
    \/ \E d \in TickSteps : Tick(d)

SpecLedger == InitLedger /\ [][NextLedger]_vars

-----------------------------------------------------------------------------
(* f32 arithmetic of tally_votes.  A positive f32 is [m, k], the value     *)
(* m / 2^k with a 24-bit mantissa 2^23 <= m < 2^24; zero is [0, 0].        *)
(* Division and multiplication round to nearest, ties to even, as IEEE 754 *)
(* single precision does.                                                 *)

\* the powers of two a 32-bit integer holds
Pow2Table == [n \in 0..30 |-> 2 ^ n]
Pow2(n) == Pow2Table[n]

\* n / d rounded to the nearest integer, ties to even
RoundDiv(n, d) ==
    LET q == n \div d
        r == n % d
    IN  IF 2 * r > d \/ (2 * r = d /\ q % 2 = 1) THEN q + 1 ELSE q

\* a mantissa that rounded up to 2^24 is 2^23 at the next exponent
Renorm(m, k, up) ==
    IF m = Pow2(24) THEN [m |-> Pow2(23), k |-> k + up] ELSE [m |-> m, k |-> k]

RECURSIVE DivScale(_, _, _)
DivScale(a, b, k) ==
    IF a * Pow2(k) >= b * Pow2(23) THEN k ELSE DivScale(a, b, k + 1)

\* a as f32 / b as f32, for integers 0 <= a < 2^24, 0 < b < 2^24 that the
\* conversion to f32 keeps exact
F32Div(a, b) ==
    IF a = 0 THEN [m |-> 0, k |-> 0]
    ELSE LET k == DivScale(a, b, 0)
         IN  Renorm(RoundDiv(a * Pow2(k), b), k, 0 - 1)

RECURSIVE MulShift(_, _)
MulShift(p, s) == IF p \div Pow2(s) < Pow2(24) THEN s ELSE MulShift(p, s + 1)

\* x * c for an f32 x and a small integer c
F32Mul(x, c) ==
    IF x.m = 0 THEN x
    ELSE LET p == x.m * c
             s == MulShift(p, 0)
             r == Renorm(RoundDiv(p, Pow2(s)), s, 1)
         IN  [m |-> r.m, k |-> x.k - r.k]

\* x >= n for an f32 x and an integer n
F32Ge(x, n) == x.m >= n * Pow2(x.k)

\* x = n for an f32 x and an integer n
F32Eq(x, n) == x.m = n * Pow2(x.k)

\* the f32 50.0
Neutral == F32Div(50, 1)

RECURSIVE SumOfScores(_, _)
\* self.reputations.values().map(|rep| rep.score).sum(), over the ids of S:
\* the scores are integers, which f32 adds exactly in any order
SumOfScores(reps, S) ==
    IF S = {} THEN 0
    ELSE LET id == CHOOSE x \in S : TRUE
         IN  reps[id].score + SumOfScores(reps, S \ {id})

\* a mean of the validators that are not banned
average_of_active(reps) ==
    LET active == {id \in DOMAIN reps : ~reps[id].is_banned}
    IN  IF active = {} THEN Neutral
        ELSE F32Div(SumOfScores(reps, active), Cardinality(active))

\* ReputationSystem::average_reputation
average_reputation(reps) ==
    IF DOMAIN reps = {} THEN Neutral
    ELSE F32Div(SumOfScores(reps, DOMAIN reps), Cardinality(DOMAIN reps))

-----------------------------------------------------------------------------
(* ValidatorSet, the validator directory the coordinator consults *)

\* ValidatorSet::contains
contains(dir, id) == id \in DOMAIN dir

\* ValidatorSet::count_active
count_active(dir) == Cardinality({id \in DOMAIN dir : dir[id].is_active})

\* ValidatorSet::get_validator
get_validator(dir, id) == IF id \in DOMAIN dir THEN Some(dir[id]) ELSE None

-----------------------------------------------------------------------------
(* ProposalVerifier *)

\* the fields of a BlockProposal that verify reads
BlockProposal(block_hash, proposer_id, signature, timestamp) ==
    [block_hash |-> block_hash,
     proposer_id |-> proposer_id,
     signature |-> signature,
     timestamp |-> timestamp]

\* the largest distance in milliseconds of a proposal's timestamp from the
\* wall clock that verify accepts
max_time_diff == 300000

Valid == [verdict |-> "Valid", reason |-> ""]
Invalid(reason) == [verdict |-> "Invalid", reason |-> reason]

\* a distance that counts the past only
time_diff_past(current_time, timestamp) ==
    IF current_time > timestamp THEN current_time - timestamp ELSE 0

\* the distance of the timestamp from the wall clock, on unsigned integers
time_diff(current_time, timestamp) ==
    IF current_time > timestamp THEN current_time - timestamp
    ELSE timestamp - current_time

\* checks that look at the signature before they look up the proposer
VerificationSignatureFirst(dir, proposal, current_time) ==
    LET v == get_validator(dir, proposal.proposer_id)
    IN  IF proposal.signature = <<>> THEN Invalid("Assinatura invalida")
        ELSE IF v = None THEN Invalid("Validador desconhecido")
        ELSE IF ~Unwrap(v).is_active THEN Invalid("Validador nao esta ativo")
        ELSE IF time_diff(current_time, proposal.timestamp) > max_time_diff
             THEN Invalid("Timestamp invalido")
        ELSE Valid

\* the checks of verify, in the order of the code: the VerificationResult
\* (the reasons without their accents)
VerificationResult(dir, proposal, current_time) ==
    LET v == get_validator(dir, proposal.proposer_id)
    IN  IF v = None THEN Invalid("Validador desconhecido")
        ELSE IF ~Unwrap(v).is_active THEN Invalid("Validador nao esta ativo")
        ELSE IF proposal.signature = <<>> THEN Invalid("Assinatura invalida")
        ELSE IF time_diff(current_time, proposal.timestamp) > max_time_diff
             THEN Invalid("Timestamp invalido")
        ELSE Valid

\* a verifier that rewards the proposer twice
LedgerAfterVerifyTwice(reps, result, id, t) ==
    IF result = Valid
    THEN LedgerAfterUpdate(LedgerAfterUpdate(reps, id, "ValidBlockProposed", t),
                           id, "ValidBlockProposed", t)
    ELSE reps

\* a verifier that fines the proposer of a rejected proposal
LedgerAfterVerifyFining(reps, result, id, t) ==
    IF result = Valid THEN LedgerAfterUpdate(reps, id, "ValidBlockProposed", t)
    ELSE LedgerAfterUpdate(reps, id, "InvalidBlockProposed", t)

\* the ledger after verify: the reward of the proposer of a proposal that
\* passed every check, whatever update_reputation returns
LedgerAfterVerify(reps, result, id, t) ==
    IF result = Valid THEN LedgerAfterUpdate(reps, id, "ValidBlockProposed", t)
    ELSE reps

\* ConsensusError::InternalError, as an outcome of verify
InternalError == [verdict |-> "InternalError", reason |-> ""]

\* what verify returns: self.validators.read() fails on a poisoned directory
\* lock before any check, self.reputation.write() on a poisoned ledger lock
\* after every check has passed
VerifyOutcome(dir, proposal, current_time) ==
    IF "validators" \in poisoned THEN InternalError
    ELSE LET result == VerificationResult(dir, proposal, current_time)
         IN  IF result = Valid /\ "reputation" \in poisoned THEN InternalError
             ELSE result

\* ProposalVerifier::verify, with the wall clock in milliseconds it reads
verify(proposal, current_time) ==
    LET result == VerifyOutcome(directory, proposal, current_time)
    IN  /\ Step
        /\ reputations' =
              LedgerAfterVerify(reputations, result, proposal.proposer_id, now)
        /\ last' = Call("verify", proposal.proposer_id,
                        [proposal |-> proposal, current_time |-> current_time],
                        result)
        /\ UNCHANGED now
        /\ NoVoting

-----------------------------------------------------------------------------
(* VotingCoordinator *)

\* ProposalVote::new
ProposalVote(block_hash, block_height, validator_id, is_in_favor) ==
    [block_hash |-> block_hash,
     block_height |-> block_height,
     validator_id |-> validator_id,
     is_in_favor |-> is_in_favor]

\* a duplicate check that looks at the most recent vote only
HasVotedLast(votes, id) == Len(votes) > 0 /\ votes[Len(votes)].validator_id = id

\* votes.iter().any(|v| v.validator_id == vote.validator_id)
HasVoted(votes, id) == \E i \in 1..Len(votes) : votes[i].validator_id = id

\* the votes process_vote finds under the hash: entry(..).or_insert_with(Vec::new)
VotesOf(votes_map, h) == IF h \in DOMAIN votes_map THEN votes_map[h] ELSE <<>>

\* history: some vote of the set has the validator and the hash of this one
SameVoter(set, vote) ==
    \E a \in set : a.validator_id = vote.validator_id /\ a.block_hash = vote.block_hash

\* what process_vote(vote) returns when it acquires the locks it asks for
VoteResult(vote) ==
    IF ~contains(directory, vote.validator_id) THEN "InvalidProposer"
    ELSE IF HasVoted(VotesOf(current_votes, vote.block_hash), vote.validator_id)
         THEN "ValidationFailed"
         ELSE "Ok"

\* what process_vote(vote) returns: self.validators.read() fails on a poisoned
\* directory lock before the voter is looked up, self.reputation.write() on a
\* poisoned ledger lock when the vote is a second vote
VoteOutcome(vote) ==
    IF "validators" \in poisoned THEN "InternalError"
    ELSE IF VoteResult(vote) = "ValidationFailed" /\ "reputation" \in poisoned
         THEN "InternalError"
         ELSE VoteResult(vote)

\* a coordinator that makes the entry of the hash before it looks up the voter
VotesAfterEntryFirst(votes_map, vote, res) ==
    LET h == vote.block_hash
    IN  [x \in DOMAIN votes_map \cup {h} |->
           IF x = h /\ res = "Ok" THEN Append(VotesOf(votes_map, h), vote)
           ELSE VotesOf(votes_map, x)]

\* current_votes after process_vote(vote) returned res: the entry of the hash
\* is made and the vote pushed when the voter is known and has not voted
VotesAfter(votes_map, vote, res) ==
    LET h == vote.block_hash
    IN  IF res = "Ok"
        THEN [x \in DOMAIN votes_map \cup {h} |->
                IF x = h THEN Append(VotesOf(votes_map, h), vote)
                ELSE votes_map[x]]
        ELSE votes_map

\* VotingCoordinator::process_vote
process_vote(vote) ==
    LET res == VoteOutcome(vote)
        h == vote.block_hash
    IN  /\ Step
        /\ current_votes' = VotesAfter(current_votes, vote, res)
        /\ reputations' =
             IF res = "ValidationFailed"
             THEN LedgerAfterUpdate(reputations, vote.validator_id, "DoubleVote", now)
             ELSE reputations
        /\ accepted' =
             IF /\ "validators" \notin poisoned
                /\ contains(directory, vote.validator_id)
                /\ ~SameVoter(accepted, vote)
             THEN accepted \cup {vote}
             ELSE accepted
        /\ last' = Call("process_vote", vote.validator_id, vote, res)
        /\ UNCHANGED <<now, directory, approval_threshold>>

\* a count of the votes against
CountAgainst(votes) == Cardinality({i \in 1..Len(votes) : ~votes[i].is_in_favor})

\* votes.iter().filter(|v| v.is_in_favor).count()
CountInFavor(votes) == Cardinality({i \in 1..Len(votes) : votes[i].is_in_favor})

\* two thirds rounded up
QuorumThresholdCeil(total_validators) == (total_validators * 2 + 2) \div 3

\* total_validators * 2 / 3
QuorumThreshold(total_validators) == (total_validators * 2) \div 3

\* total_votes >= (total_validators * 2 / 3)
ReachedQuorum(total_votes, total_validators) ==
    total_votes >= QuorumThreshold(total_validators)

\* (votes_in_favor as f32 / total_votes as f32) * 100.0
ApprovalPercentage(votes_in_favor, total_votes) ==
    F32Mul(F32Div(votes_in_favor, total_votes), 100)

\* an approval test that wants more than the threshold
MeetsThresholdStrict(percentage, threshold) ==
    F32Ge(percentage, threshold) /\ ~F32Eq(percentage, threshold)

\* approval_percentage >= self.approval_threshold
MeetsThreshold(percentage, threshold) == F32Ge(percentage, threshold)

\* a result that reports the height of the most recent vote
VotingResultLastHeight(h, votes, dir, threshold) ==
    LET total_votes == Len(votes)
        votes_in_favor == CountInFavor(votes)
        approval_percentage == ApprovalPercentage(votes_in_favor, total_votes)
        reached_quorum == ReachedQuorum(total_votes, count_active(dir))
    IN  [block_hash |-> h,
         block_height |-> votes[Len(votes)].block_height,
         total_votes |-> total_votes,
         votes_in_favor |-> votes_in_favor,
         votes_against |-> total_votes - votes_in_favor,
         approval_percentage |-> approval_percentage,
         reached_quorum |-> reached_quorum,
         is_approved |-> reached_quorum
                         /\ MeetsThreshold(approval_percentage, threshold)]

\* the VotingResult tally_votes builds from a non-empty vote list
VotingResult(h, votes, dir, threshold) ==
    LET total_votes == Len(votes)
        votes_in_favor == CountInFavor(votes)
        approval_percentage == ApprovalPercentage(votes_in_favor, total_votes)
        reached_quorum == ReachedQuorum(total_votes, count_active(dir))
    IN  [block_hash |-> h,
         block_height |-> votes[1].block_height,
         total_votes |-> total_votes,
         votes_in_favor |-> votes_in_favor,
         votes_against |-> total_votes - votes_in_favor,
         approval_percentage |-> approval_percentage,
         reached_quorum |-> reached_quorum,
         is_approved |-> reached_quorum
                         /\ MeetsThreshold(approval_percentage, threshold)]

\* VotingCoordinator::tally_votes, on a given state of the coordinator
TallyOf(votes_map, dir, threshold, h) ==
    IF h \notin DOMAIN votes_map THEN None
    ELSE IF votes_map[h] = <<>> THEN None
         ELSE Some(VotingResult(h, votes_map[h], dir, threshold))

\* VotingCoordinator::tally_votes: on a hash with votes self.validators.read()
\* fails on a poisoned directory lock, and the match returns None
tally_votes(h) ==
    IF "validators" \in poisoned THEN None
    ELSE TallyOf(current_votes, directory, approval_threshold, h)

\* VotingCoordinator::has_reached_finality, on a given state of the coordinator
FinalityOf(votes_map, dir, threshold, h) ==
    LET tally == TallyOf(votes_map, dir, threshold, h)
    IN  IF tally # None THEN Unwrap(tally).is_approved ELSE FALSE

\* VotingCoordinator::has_reached_finality
has_reached_finality(h) ==
    IF tally_votes(h) # None THEN Unwrap(tally_votes(h)).is_approved ELSE FALSE

\* a purge that empties the coordinator
clear_votes_all(h) ==
    /\ Step
    /\ current_votes' = EmptyMap
    /\ accepted' = {}
    /\ last' = Call("clear_votes", h, None, "Ok")
    /\ UNCHANGED <<now, reputations, directory, approval_threshold>>

\* VotingCoordinator::clear_votes
clear_votes(h) ==
    /\ Step
    /\ current_votes' = [x \in DOMAIN current_votes \ {h} |-> current_votes[x]]
    /\ accepted' = {a \in accepted : a.block_hash # h}
    /\ last' = Call("clear_votes", h, None, "Ok")
    /\ UNCHANGED <<now, reputations, directory, approval_threshold>>

\* a query changes nothing but the record of the last call
Query == UNCHANGED <<now, reputations, directory, current_votes, approval_threshold,
                     accepted, budget, threads, poisoned, registry, validated>>

\* a caller asks for the tally of a hash
call_tally_votes(h) ==
    /\ last' = Call("tally_votes", h, None, tally_votes(h))
    /\ Query

\* a caller asks whether a hash reached finality
call_has_reached_finality(h) ==
    /\ last' = Call("has_reached_finality", h, None, has_reached_finality(h))
    /\ Query

-----------------------------------------------------------------------------
(* The voting specification: a coordinator over a directory of two known   *)
(* validators and a ledger in which any of them was registered at start.   *)

\* calls in one run of the voting specification
MaxVoteSteps == 4

\* a voter the directory does not know
Stranger == "x"

Hashes == {"H1", "H2"}

Heights == {10, 11}

\* approval thresholds a coordinator is built with
Thresholds == {60, 66, 75}

\* votes handed to process_vote: any vote of a known validator, and one vote
\* of the stranger for each hash
VoteInputs ==
    {ProposalVote(h, height, id, favor) :
        h \in Hashes, height \in Heights, id \in IDs, favor \in BOOLEAN}
    \cup {ProposalVote(h, 10, Stranger, TRUE) : h \in Hashes}

\* the ledgers add_validator builds at time 0 from the ids of S
FreshLedger(S) == [id \in S |-> NewReputation(0)]

\* a ledger in which set_reputation(id, score) has been called
WithScore(reps, id, score) == [reps EXCEPT ![id].score = ClampInput(score)]

\* the ledgers a coordinator is started over: every validator and the
\* stranger fresh, or v1 set to a low score and nobody else registered
VotingLedgers ==
    {FreshLedger(IDs \cup {Stranger}), WithScore(FreshLedger({"v1"}), "v1", F32(12))}

\* directories over the ids of S
Directories(S) == [S -> [is_active : BOOLEAN]]

InitVoting ==
    /\ now = 0
    /\ reputations \in VotingLedgers
    /\ directory \in {d \in Directories(IDs) : d["v1"].is_active}
    /\ current_votes = EmptyMap
    /\ accepted = {}
    /\ approval_threshold = 66
    /\ last = NoCall
    /\ budget = MaxVoteSteps
    /\ threads = NoThreads
    /\ NoPanics
    /\ NoTransactions

NextVoting ==
    \/ \E vote \in VoteInputs : process_vote(vote)
    \/ \E h \in Hashes : clear_votes(h)
    \/ \E h \in Hashes : call_tally_votes(h)
    \/ \E h \in Hashes : call_has_reached_finality(h)

SpecVoting == InitVoting /\ [][NextVoting]_vars

-----------------------------------------------------------------------------
(* The verifier specification: a verifier over a directory in which v1 is   *)
(* active and v2 may be inactive, and a ledger; proposals arrive while      *)
(* validators are banned and the clock advances.                            *)

\* calls in one run of the verifier specification
MaxVerifySteps == 3

\* the wall clock in milliseconds when verify reads it
WallClock == {400000}

\* timestamps of proposals: max_time_diff and one more before and after the
\* wall clock, and the wall clock itself
Timestamps ==
    {400000 - max_time_diff - 1, 400000 - max_time_diff, 400000,
     400000 + max_time_diff, 400000 + max_time_diff + 1}

Signatures == {<<>>, <<7>>}

\* proposals handed to verify: every signature and timestamp from v1, and from
\* v2 and the stranger the timestamps in range and out of range
ProposalInputs ==
    {BlockProposal("H1", "v1", sig, ts) : sig \in Signatures, ts \in Timestamps}
    \cup {BlockProposal("H1", id, sig, ts) :
            id \in {"v2", Stranger}, sig \in Signatures,
            ts \in {400000, 400000 + max_time_diff + 1}}

\* the ledgers a verifier is started over: every validator fresh, or v1 near
\* the top of the scale and v2 not registered
VerifyLedgers ==
    {FreshLedger(IDs), WithScore(FreshLedger({"v1"}), "v1", F32(99))}

InitVerify ==
    /\ now = 0
    /\ reputations \in VerifyLedgers
    /\ directory \in {d \in Directories(IDs) : d["v1"].is_active}
    /\ current_votes = EmptyMap
    /\ accepted = {}
    /\ approval_threshold = 66
    /\ last = NoCall
    /\ budget = MaxVerifySteps
    /\ threads = NoThreads
    /\ NoPanics
    /\ NoTransactions

NextVerify ==
    \/ \E proposal \in ProposalInputs, current_time \in WallClock :
          verify(proposal, current_time)
    \/ \E id \in IDs, duration \in BanDurations : ban_validator(id, duration)
    \/ \E d \in TickSteps : Tick(d)

SpecVerify == InitVerify /\ [][NextVerify]_vars

-----------------------------------------------------------------------------
(* Poisoned locks.  A RwLock is poisoned when a thread panics while it      *)
(* holds the write guard; from then on read() and write() return Err.       *)

\* the directory lock and the ledger lock
Locks == {"validators", "reputation"}

\* a holder of the write guard of the lock panics
poison(lock) ==
    /\ lock \notin poisoned
    /\ budget > 0
    /\ budget' = budget - 1
    /\ poisoned' = poisoned \cup {lock}
    /\ last' = Call("panic", "", lock, "Ok")
    /\ UNCHANGED <<now, reputations, directory, current_votes, approval_threshold,
                   accepted, threads, registry, validated>>

\* calls in one run of the poison specification
MaxPoisonSteps == 3

\* the votes of the poison specification: v1 and v2 on H1, and the stranger
PoisonVotes ==
    {ProposalVote("H1", 10, "v1", TRUE), ProposalVote("H1", 10, "v2", FALSE),
     ProposalVote("H1", 10, Stranger, TRUE)}

\* the proposals of the poison specification: one that passes every check and
\* one without a signature
PoisonProposals == {BlockProposal("H1", "v1", sig, 400000) : sig \in Signatures}

InitPoison ==
    /\ now = 0
    /\ reputations = FreshLedger(IDs)
    /\ directory = [id \in IDs |-> [is_active |-> TRUE]]
    /\ current_votes = EmptyMap
    /\ accepted = {}
    /\ approval_threshold = 66
    /\ last = NoCall
    /\ budget = MaxPoisonSteps
    /\ threads = NoThreads
    /\ NoPanics
    /\ NoTransactions

NextPoison ==
    \/ \E lock \in Locks : poison(lock)
    \/ \E vote \in PoisonVotes : process_vote(vote)
    \/ \E proposal \in PoisonProposals : verify(proposal, 400000)
    \/ \E h \in Hashes : call_tally_votes(h)
    \/ \E h \in Hashes : call_has_reached_finality(h)

SpecPoison == InitPoison /\ [][NextPoison]_vars

-----------------------------------------------------------------------------
(* Properties of the core under a poisoned lock *)

\* what the caller is told by the result of a call
Reported(call) ==
    CASE call.op = "verify" -> call.res.verdict
      [] call.op = "process_vote" -> call.res
      [] call.op = "tally_votes" -> IF call.res = None THEN "None" ELSE "Some"
      [] call.op = "has_reached_finality" -> IF call.res THEN "true" ELSE "false"
      [] OTHER -> "Ok"

\* the last call asked for a lock that is poisoned: verify and process_vote
\* for the directory lock at once and for the ledger lock when they come to
\* update the ledger (a proposal that passed every check, a vote that was not
\* accepted because the voter had voted), the tally for the directory lock
\* when the hash has votes.  No call poisons a lock or changes the directory,
\* and a query changes no vote.
AskedForPoisonedLock ==
    \/ /\ last.op = "verify"
       /\ \/ "validators" \in poisoned
          \/ /\ "reputation" \in poisoned
             /\ VerificationResult(directory, last.arg.proposal,
                                   last.arg.current_time) = Valid
    \/ /\ last.op = "process_vote"
       /\ \/ "validators" \in poisoned
          \/ /\ "reputation" \in poisoned
             /\ contains(directory, last.id)
             /\ last.res # "Ok"
             /\ HasVoted(VotesOf(current_votes, last.arg.block_hash), last.id)
    \/ /\ last.op \in {"tally_votes", "has_reached_finality"}
       /\ "validators" \in poisoned
       /\ VotesOf(current_votes, last.id) # <<>>

\* C22: whenever an operation of the core (verify, process_vote, tally_votes,
\* has_reached_finality) cannot acquire the directory lock or the ledger lock
\* because it is poisoned, the failure is reported to the caller as
\* ConsensusError::InternalError and is not turned into any other outcome.
C22_PoisonIsInternalError ==
    AskedForPoisonedLock => Reported(last) = "InternalError"

\* C29: tally_votes(H) returns None if and only if no vote is currently
\* recorded for H (H never received an accepted vote, or its votes were
\* cleared); in every other state it returns a result.
C29_NoneIffNoVotes ==
    \A h \in Hashes : tally_votes(h) = None <=> VotesOf(current_votes, h) = <<>>

-----------------------------------------------------------------------------
(* Threads.  verify and process_vote as the steps a thread takes between    *)
(* lock acquisitions.  A thread holds the guard of a lock from the          *)
(* acquisition to the return of the function: the guards are local          *)
(* variables of verify and process_vote and are dropped when these return.  *)
(* process_vote takes &mut self, so threads sharing a coordinator enter it  *)
(* under the caller's exclusive lock.                                       *)

Threads == DOMAIN threads

\* a thread that has not entered the core yet
NewThread(op, arg) ==
    [op |-> op, arg |-> arg, pc |-> "idle", holds |-> {}, order |-> 0,
     res |-> "", pre |-> None]

\* the threads that hold the guard of a lock
Holders(lock) == {u \in Threads : lock \in threads[u].holds}

\* a function that keeps its guards when it returns
ReturnKeepingGuards(t, res) ==
    threads' = [threads EXCEPT ![t].pc = "done", ![t].res = res]

\* the function returns: its guards are dropped, the caller has the result
Return(t, res) ==
    threads' = [threads EXCEPT ![t].pc = "done", ![t].holds = {}, ![t].res = res]

\* the thread moves on inside the function
Goto(t, pc, holds) ==
    threads' = [threads EXCEPT ![t].pc = pc, ![t].holds = @ \cup holds]

ThreadFrame == UNCHANGED <<now, directory, approval_threshold, last, budget,
                           poisoned, registry, validated>>

\* the caller takes the exclusive lock of the coordinator and calls process_vote
pv_enter(t) ==
    /\ threads[t].op = "process_vote"
    /\ threads[t].pc = "idle"
    /\ Holders("coordinator") = {}
    /\ threads' = [threads EXCEPT
                     ![t].pc = "read_validators",
                     ![t].holds = {"coordinator"},
                     ![t].order = 1 + Cardinality({u \in Threads : threads[u].order > 0})]
    /\ UNCHANGED <<reputations, current_votes, accepted>>
    /\ ThreadFrame

\* process_vote: self.validators.read()
pv_read_validators(t) ==
    /\ threads[t].op = "process_vote"
    /\ threads[t].pc = "read_validators"
    /\ Goto(t, "check", {"validators"})
    /\ UNCHANGED <<reputations, current_votes, accepted>>
    /\ ThreadFrame

\* process_vote: the lookup of the voter, the duplicate check and the push
pv_check(t) ==
    LET vote == threads[t].arg
        res == VoteResult(vote)
    IN  /\ threads[t].op = "process_vote"
        /\ threads[t].pc = "check"
        /\ current_votes' = VotesAfter(current_votes, vote, res)
        /\ accepted' = IF res = "Ok" THEN accepted \cup {vote} ELSE accepted
        /\ IF res = "ValidationFailed" THEN Goto(t, "write_reputation", {})
           ELSE Return(t, res)
        /\ UNCHANGED reputations
        /\ ThreadFrame

\* process_vote: self.reputation.write(), for the penalty
pv_write_reputation(t) ==
    /\ threads[t].op = "process_vote"
    /\ threads[t].pc = "write_reputation"
    /\ Holders("reputation") = {}
    /\ Goto(t, "update", {"reputation"})
    /\ UNCHANGED <<reputations, current_votes, accepted>>
    /\ ThreadFrame

\* process_vote: update_reputation(DoubleVote), its error logged, and the
\* return of Err(ValidationFailed)
pv_penalise(t) ==
    LET id == threads[t].arg.validator_id
    IN  /\ threads[t].op = "process_vote"
        /\ threads[t].pc = "update"
        /\ reputations' = LedgerAfterUpdate(reputations, id, "DoubleVote", now)
        /\ threads' = [threads EXCEPT
                         ![t].pc = "done", ![t].holds = {},
                         ![t].res = "ValidationFailed",
                         ![t].pre = IF id \in Registered THEN Some(reputations[id])
                                    ELSE None]
        /\ UNCHANGED <<current_votes, accepted>>
        /\ ThreadFrame

\* verify: self.validators.read()
vf_read_validators(t) ==
    /\ threads[t].op = "verify"
    /\ threads[t].pc = "idle"
    /\ Goto(t, "check", {"validators"})
    /\ UNCHANGED <<reputations, current_votes, accepted>>
    /\ ThreadFrame

\* verify: the checks of the proposer, the signature and the timestamp
vf_check(t) ==
    LET result == VerificationResult(directory, threads[t].arg.proposal,
                                     threads[t].arg.current_time)
    IN  /\ threads[t].op = "verify"
        /\ threads[t].pc = "check"
        /\ IF result = Valid THEN Goto(t, "write_reputation", {})
           ELSE Return(t, result.reason)
        /\ UNCHANGED <<reputations, current_votes, accepted>>
        /\ ThreadFrame

\* verify: self.reputation.write(), for the reward
vf_write_reputation(t) ==
    /\ threads[t].op = "verify"
    /\ threads[t].pc = "write_reputation"
    /\ Holders("reputation") = {}
    /\ Goto(t, "update", {"reputation"})
    /\ UNCHANGED <<reputations, current_votes, accepted>>
    /\ ThreadFrame

\* verify: update_reputation(ValidBlockProposed), its error logged, and the
\* return of Ok(Valid)
vf_reward(t) ==
    LET id == threads[t].arg.proposal.proposer_id
    IN  /\ threads[t].op = "verify"
        /\ threads[t].pc = "update"
        /\ reputations' = LedgerAfterVerify(reputations, Valid, id, now)
        /\ threads' = [threads EXCEPT
                         ![t].pc = "done", ![t].holds = {},
                         ![t].res = "Valid",
                         ![t].pre = IF id \in Registered THEN Some(reputations[id])
                                    ELSE None]
        /\ UNCHANGED <<current_votes, accepted>>
        /\ ThreadFrame

-----------------------------------------------------------------------------
(* The threads specification: MaxThreads threads, each with one call to     *)
(* make on the same coordinator, verifier, directory and ledger.            *)

MaxThreads == 3

\* the calls the threads make: two different votes of v1 and a vote of v2 and
\* of the stranger for one hash, a proposal of v1 that passes and one with an
\* empty signature
Jobs ==
    <<NewThread("process_vote", ProposalVote("H1", 10, "v1", TRUE)),
      NewThread("process_vote", ProposalVote("H1", 10, "v1", FALSE)),
      NewThread("process_vote", ProposalVote("H1", 10, "v2", TRUE)),
      NewThread("process_vote", ProposalVote("H1", 10, Stranger, TRUE)),
      NewThread("verify", [proposal |-> BlockProposal("H1", "v1", <<7>>, 400000),
                           current_time |-> 400000]),
      NewThread("verify", [proposal |-> BlockProposal("H1", "v1", <<>>, 400000),
                           current_time |-> 400000])>>

\* threads are interchangeable: the calls are handed out in the order of Jobs
JobAssignments ==
    {a \in [1..MaxThreads -> 1..Len(Jobs)] :
        \A i, j \in 1..MaxThreads : i < j => a[i] <= a[j]}

InitThreads ==
    /\ now = 0
    /\ reputations \in {FreshLedger(IDs), FreshLedger({"v1"})}
    /\ directory = [id \in IDs |-> [is_active |-> TRUE]]
    /\ current_votes = EmptyMap
    /\ accepted = {}
    /\ approval_threshold = 66
    /\ last = NoCall
    /\ budget = 0
    /\ threads \in {[t \in 1..MaxThreads |-> Jobs[a[t]]] : a \in JobAssignments}
    /\ NoPanics
    /\ NoTransactions

NextThreads ==
    \/ \E t \in 1..MaxThreads : pv_enter(t)
    \/ \E t \in 1..MaxThreads : pv_read_validators(t)
    \/ \E t \in 1..MaxThreads : pv_check(t)
    \/ \E t \in 1..MaxThreads : pv_write_reputation(t)
    \/ \E t \in 1..MaxThreads : pv_penalise(t)
    \/ \E t \in 1..MaxThreads : vf_read_validators(t)
    \/ \E t \in 1..MaxThreads : vf_check(t)
    \/ \E t \in 1..MaxThreads : vf_write_reputation(t)
    \/ \E t \in 1..MaxThreads : vf_reward(t)

SpecThreads == InitThreads /\ [][NextThreads]_vars

-----------------------------------------------------------------------------
(* Callers.  Threads that run the operations of the ledger and the tally    *)
(* next to verify and process_vote.  The ledger is shared behind its        *)
(* RwLock, so a thread takes the write guard for the call of a &mut self    *)
(* operation and drops it when the call returns; tally_votes takes &self,   *)
(* so it shares the coordinator with other tallies and excludes             *)
(* process_vote.  No thread panics.                                         *)

\* ReputationSystem::ban_validator, as the ledger it leaves
LedgerAfterBan(reps, id, duration, t) ==
    IF id \in DOMAIN reps THEN [reps EXCEPT ![id] = ban(@, duration, t)]
    ELSE reps

\* ReputationSystem::update_offline_status, as the ledger it leaves
LedgerAfterOffline(reps, threshold, t) ==
    [id \in DOMAIN reps |->
       IF id \in OfflineIds(reps, threshold, t)
       THEN UpdateRecord(reps[id], "Offline", t).rep
       ELSE reps[id]]

\* the operations of the ledger a thread calls under the write guard
LedgerCalls == {"update_reputation", "ban_validator", "update_offline_status"}

\* the ledger after the call of a thread
LedgerAfterCall(reps, op, arg, t) ==
    CASE op = "update_reputation" -> LedgerAfterUpdate(reps, arg.id, arg.action, t)
      [] op = "ban_validator" -> LedgerAfterBan(reps, arg.id, arg.duration, t)
      [] op = "update_offline_status" -> LedgerAfterOffline(reps, arg, t)

\* what the call of a thread returns
ResultOfCall(reps, op, arg, t) ==
    CASE op = "update_reputation" -> UpdateResult(reps, arg.id, arg.action, t)
      [] op = "ban_validator" -> IF arg.id \in DOMAIN reps THEN "Ok" ELSE "NotFound"
      [] op = "update_offline_status" -> "Ok"

\* the caller of a ledger operation: self.reputation.write()
lg_write_reputation(t) ==
    /\ threads[t].op \in LedgerCalls
    /\ threads[t].pc = "idle"
    /\ Holders("reputation") = {}
    /\ Goto(t, "update", {"reputation"})
    /\ UNCHANGED <<reputations, current_votes, accepted>>
    /\ ThreadFrame

\* the ledger operation itself, and the drop of the write guard
lg_apply(t) ==
    /\ threads[t].op \in LedgerCalls
    /\ threads[t].pc = "update"
    /\ reputations' = LedgerAfterCall(reputations, threads[t].op, threads[t].arg, now)
    /\ Return(t, ResultOfCall(reputations, threads[t].op, threads[t].arg, now))
    /\ UNCHANGED <<current_votes, accepted>>
    /\ ThreadFrame

\* the caller shares the coordinator and calls tally_votes
tl_enter(t) ==
    /\ threads[t].op = "tally_votes"
    /\ threads[t].pc = "idle"
    /\ \A u \in Holders("coordinator") : threads[u].op = "tally_votes"
    /\ Goto(t, "get_votes", {"coordinator"})
    /\ UNCHANGED <<reputations, current_votes, accepted>>
    /\ ThreadFrame

\* tally_votes: the lookup of the hash; None without votes
tl_get_votes(t) ==
    /\ threads[t].op = "tally_votes"
    /\ threads[t].pc = "get_votes"
    /\ IF VotesOf(current_votes, threads[t].arg) = <<>> THEN Return(t, "None")
       ELSE Goto(t, "read_validators", {})
    /\ UNCHANGED <<reputations, current_votes, accepted>>
    /\ ThreadFrame

\* tally_votes: self.validators.read(), the count and the result
tl_count(t) ==
    LET tally == TallyOf(current_votes, directory, approval_threshold, threads[t].arg)
    IN  /\ threads[t].op = "tally_votes"
        /\ threads[t].pc = "read_validators"
        /\ Return(t, IF Unwrap(tally).is_approved THEN "Approved" ELSE "NotApproved")
        /\ UNCHANGED <<reputations, current_votes, accepted>>
        /\ ThreadFrame

\* threads of the callers specification
MaxCallers == 3

\* the calls the callers make: two votes of v1 for one hash, a proposal of v1
\* that passes, a tally, and the three operations of the ledger
CallerJobs ==
    <<NewThread("process_vote", ProposalVote("H1", 10, "v1", TRUE)),
      NewThread("process_vote", ProposalVote("H1", 10, "v1", FALSE)),
      NewThread("verify", [proposal |-> BlockProposal("H1", "v1", <<7>>, 400000),
                           current_time |-> 400000]),
      NewThread("tally_votes", "H1"),
      NewThread("update_reputation", [id |-> "v1", action |-> "DoubleVote"]),
      NewThread("ban_validator", [id |-> "v1", duration |-> 1800]),
      NewThread("update_offline_status", initial_ban_duration)>>

\* callers are interchangeable and each makes another call: the calls are
\* handed out in the order of CallerJobs
CallerAssignments ==
    {a \in [1..MaxCallers -> 1..Len(CallerJobs)] :
        \A i, j \in 1..MaxCallers : i < j => a[i] < a[j]}

InitCallers ==
    /\ now = 0
    /\ reputations = FreshLedger(IDs)
    /\ directory = [id \in IDs |-> [is_active |-> TRUE]]
    /\ current_votes = EmptyMap
    /\ accepted = {}
    /\ approval_threshold = 66
    /\ last = NoCall
    /\ budget = 0
    /\ threads \in {[t \in 1..MaxCallers |-> CallerJobs[a[t]]] : a \in CallerAssignments}
    /\ NoPanics
    /\ NoTransactions

NextCallers ==
    \/ \E t \in 1..MaxCallers : pv_enter(t)
    \/ \E t \in 1..MaxCallers : pv_read_validators(t)
    \/ \E t \in 1..MaxCallers : pv_check(t)
    \/ \E t \in 1..MaxCallers : pv_write_reputation(t)
    \/ \E t \in 1..MaxCallers : pv_penalise(t)
    \/ \E t \in 1..MaxCallers : vf_read_validators(t)
    \/ \E t \in 1..MaxCallers : vf_check(t)
    \/ \E t \in 1..MaxCallers : vf_write_reputation(t)
    \/ \E t \in 1..MaxCallers : vf_reward(t)
    \/ \E t \in 1..MaxCallers : tl_enter(t)
    \/ \E t \in 1..MaxCallers : tl_get_votes(t)
    \/ \E t \in 1..MaxCallers : tl_count(t)
    \/ \E t \in 1..MaxCallers : lg_write_reputation(t)
    \/ \E t \in 1..MaxCallers : lg_apply(t)

\* the scheduler runs some thread as long as one of them can take a step
SpecCallers == InitCallers /\ [][NextCallers]_vars /\ WF_vars(NextCallers)

-----------------------------------------------------------------------------
(* Properties of the threads *)

\* every thread has returned
AllDone == \A t \in Threads : threads[t].pc = "done"

\* the threads that submit a vote of validator v for hash h
Voters(v, h) ==
    {t \in Threads : /\ threads[t].op = "process_vote"
                     /\ threads[t].arg.validator_id = v
                     /\ threads[t].arg.block_hash = h}

\* of the threads of S, the first that entered process_vote got Ok(true) and
\* its vote is the one vote of v stored for h; every other got
\* Err(ValidationFailed)
FirstVoteWins(S, v, h) ==
    \E w \in S :
        /\ \A t \in S : threads[w].order <= threads[t].order
        /\ threads[w].res = "Ok"
        /\ \A t \in S \ {w} : threads[t].res = "ValidationFailed"
        /\ h \in DOMAIN current_votes
        /\ {i \in 1..Len(current_votes[h]) : current_votes[h][i].validator_id = v}
              = {i \in 1..Len(current_votes[h]) : current_votes[h][i] = threads[w].arg}
        /\ Cardinality({i \in 1..Len(current_votes[h]) :
                            current_votes[h][i].validator_id = v}) = 1

\* the rejected threads of S
Rejected(S) == {t \in S : threads[t].res = "ValidationFailed"}

\* the rejected threads of S whose update_reputation found a record that was
\* not banned
Fined(S) ==
    {t \in Rejected(S) : threads[t].pre # None /\ ~Unwrap(threads[t].pre).is_banned}

\* C19 as stated: in every interleaving exactly one of the votes, the first
\* to enter process_vote, is accepted and stored, and each of the others gets
\* Err(ValidationFailed) and applies one DoubleVote penalty.
C19_EachDuplicateFined ==
    AllDone =>
        \A v \in DOMAIN directory, h \in Hashes :
            Voters(v, h) # {} =>
                /\ FirstVoteWins(Voters(v, h), v, h)
                /\ Fined(Voters(v, h)) = Rejected(Voters(v, h))
                /\ Rejected(Voters(v, h)) # {} =>
                      /\ v \in Registered
                      /\ reputations[v].double_votes
                            = Cardinality(Rejected(Voters(v, h)))

\* C19, amended: in every interleaving exactly one of the votes, the first to
\* enter process_vote, is accepted with Ok(true) and stored; each of the
\* others gets Err(ValidationFailed) and makes one update_reputation(id,
\* DoubleVote) call, which counts and fines the double vote only when the
\* validator has a ledger record and is not banned at that moment; no record
\* is made for a validator without one.
C19_FirstVoteWins ==
    AllDone =>
        \A v \in DOMAIN directory, h \in Hashes :
            Voters(v, h) # {} =>
                /\ FirstVoteWins(Voters(v, h), v, h)
                /\ \A t \in Rejected(Voters(v, h)) :
                      threads[t].pre = None <=> v \notin Registered
                /\ v \in Registered =>
                      reputations[v].double_votes = Cardinality(Fined(Voters(v, h)))

\* two threads have submitted different votes of one validator for one hash and
\* have returned: one vote is stored, the other thread was rejected and the
\* validator fined
C19_Witness ==
    /\ AllDone
    /\ \E t, u \in Threads :
          /\ threads[t].op = "process_vote"
          /\ threads[u].op = "process_vote"
          /\ threads[t].arg # threads[u].arg
          /\ threads[t].arg.validator_id = threads[u].arg.validator_id
          /\ threads[t].res = "Ok"
          /\ threads[u].res = "ValidationFailed"
          /\ reputations[threads[u].arg.validator_id].double_votes = 1

\* C20: no thread holds the guard of the validator directory when it asks for
\* the lock of the reputation ledger, or while it holds that lock.
C20_NoLockHeldAcrossLocks ==
    \A t \in Threads :
        (threads[t].pc = "write_reputation" \/ "reputation" \in threads[t].holds)
            => "validators" \notin threads[t].holds

\* some thread can take a step unless every thread has returned
NoThreadStuck == AllDone \/ ENABLED NextCallers

\* C21: with any number of threads concurrently running verify, process_vote,
\* tally_votes and ledger operations (update_reputation, update_offline_status,
\* ban_validator) against the shared directory lock and ledger lock, no
\* interleaving reaches a deadlock: every thread that started an operation
\* eventually completes it.
C21_EveryCallCompletes ==
    /\ []NoThreadStuck
    /\ <>AllDone

\* every thread has returned after three of them needed the write guard of the
\* ledger: a second vote that was fined, a ban, and a third call
C21_Witness ==
    /\ AllDone
    /\ \E a, b, c \in Threads :
          /\ threads[a].op = "process_vote"
          /\ threads[a].res = "Ok"
          /\ threads[b].op = "process_vote"
          /\ threads[b].res = "ValidationFailed"
          /\ threads[c].op = "ban_validator"
          /\ threads[c].res = "Ok"
          /\ reputations["v1"].is_banned
          /\ reputations["v1"].double_votes = 1

-----------------------------------------------------------------------------
(* Properties of verify *)

\* the timestamp of a proposal is more than 300000 ms before or after the
\* wall clock
Skewed(proposal, current_time) ==
    \/ current_time - proposal.timestamp > 300000
    \/ proposal.timestamp - current_time > 300000

\* the directory knows the proposer
Known(proposal) == proposal.proposer_id \in DOMAIN directory

\* the directory knows the proposer as active
Active(proposal) == Known(proposal) /\ directory[proposal.proposer_id].is_active

\* C14: verify checks proposer known, proposer active, signature non-empty,
\* timestamp skew, in this order, and returns Invalid with the reason of the
\* first check that fails, whatever the later checks would say; the four
\* reasons differ and no failed check gives anything but an Invalid verdict.
C14_FirstFailingCheck ==
    last.op = "verify" =>
        LET proposal == last.arg.proposal
            current_time == last.arg.current_time
            unknown == Invalid("Validador desconhecido")
            inactive == Invalid("Validador nao esta ativo")
            signature == Invalid("Assinatura invalida")
            timestamp == Invalid("Timestamp invalido")
        IN  /\ Cardinality({unknown, inactive, signature, timestamp, Valid}) = 5
            /\ ~Known(proposal) => last.res = unknown
            /\ (Known(proposal) /\ ~Active(proposal)) => last.res = inactive
            /\ (Active(proposal) /\ proposal.signature = <<>>)
                  => last.res = signature
            /\ (Active(proposal) /\ proposal.signature # <<>>
                  /\ Skewed(proposal, current_time)) => last.res = timestamp
            /\ last.res # Valid => last.res.verdict = "Invalid"

\* a proposal of an unknown proposer with an empty signature and a timestamp
\* out of range has just been rejected as coming from an unknown validator
C14_Witness ==
    /\ last.op = "verify"
    /\ ~Known(last.arg.proposal)
    /\ last.arg.proposal.signature = <<>>
    /\ Skewed(last.arg.proposal, last.arg.current_time)
    /\ last.res = Invalid("Validador desconhecido")

\* C15: for a known, active proposer and a non-empty signature verify returns
\* Invalid with the timestamp reason exactly when the timestamp is more than
\* 300000 ms away from the wall clock, before or after it; 300000 ms passes.
C15_TimestampSkew ==
    (last.op = "verify" /\ Active(last.arg.proposal)
        /\ last.arg.proposal.signature # <<>>) =>
        LET proposal == last.arg.proposal
            current_time == last.arg.current_time
        IN  /\ last.res = Invalid("Timestamp invalido")
                  <=> Skewed(proposal, current_time)
            /\ ~Skewed(proposal, current_time) => last.res = Valid

\* a proposal stamped exactly 300000 ms ahead of the wall clock has just been
\* found valid
C15_Witness ==
    /\ last.op = "verify"
    /\ last.arg.proposal.timestamp - last.arg.current_time = 300000
    /\ last.res = Valid

\* the six counters of a record
Counters(rep) ==
    <<rep.successful_proposals, rep.invalid_proposals, rep.correct_votes,
      rep.incorrect_votes, rep.timeouts, rep.double_votes>>

\* the score, the counters and the ban fields of a record
Standing(rep) == <<rep.score, Counters(rep), rep.is_banned, rep.banned_until>>

\* a verify step on a proposal that passes every check
VerifyStepRewardsOnce ==
    (/\ last'.op = "verify"
     /\ budget' # budget
     /\ Active(last'.arg.proposal)
     /\ last'.arg.proposal.signature # <<>>
     /\ ~Skewed(last'.arg.proposal, last'.arg.current_time)) =>
        LET id == last'.id
        IN  /\ last'.res = Valid
            /\ Registered' = Registered
            /\ \A x \in Registered \ {id} : reputations'[x] = reputations[x]
            /\ id \in Registered =>
                  LET pre == reputations[id]
                      post == reputations'[id]
                  IN  IF pre.is_banned /\ now < Unwrap(pre.banned_until)
                      THEN Standing(post) = Standing(pre)
                      ELSE /\ post.successful_proposals =
                                 pre.successful_proposals + 1
                           /\ post.score = Min(pre.score + valid_block_points, 100)
                           /\ [post EXCEPT !.successful_proposals = 0, !.score = 0,
                                           !.last_seen = 0]
                                = [pre EXCEPT !.successful_proposals = 0, !.score = 0,
                                              !.last_seen = 0, !.is_banned = FALSE,
                                              !.banned_until = None]

\* C16: when every check passes verify returns Valid and applies exactly one
\* ValidBlockProposed to the proposer (successful_proposals + 1, score +
\* valid_block_points capped at 100); when the proposer has no ledger record
\* or is banned, verify still returns Valid, creates no record and changes no
\* score, counter or ban field.
C16_BestEffortReward == [][VerifyStepRewardsOnce]_vars

\* a proposal of a banned proposer has just been found valid and the record
\* of the proposer has the score and the counters it had
C16_Witness ==
    /\ last.op = "verify"
    /\ last.res = Valid
    /\ last.pre # None
    /\ Unwrap(last.pre).is_banned
    /\ now < Unwrap(Unwrap(last.pre).banned_until)
    /\ Standing(reputations[last.id]) = Standing(Unwrap(last.pre))

\* C17: a verify call that returns Invalid, for an unknown proposer, an
\* inactive proposer, an empty signature or a timestamp out of range, leaves
\* the whole ledger as it was: score, counters, last_seen and ban fields.
C17_InvalidLeavesLedger ==
    [][(last'.op = "verify" /\ budget' # budget /\ last'.res # Valid) =>
          reputations' = reputations]_vars

\* a proposal of a registered, active validator has just been rejected for its
\* empty signature and the record of the validator is as it was
C17_Witness ==
    /\ last.op = "verify"
    /\ last.res = Invalid("Assinatura invalida")
    /\ last.id \in Registered
    /\ last.pre = Some(reputations[last.id])

-----------------------------------------------------------------------------
(* Properties of process_vote *)

\* the vote list of every hash holds each validator at most once
NoDuplicateVoters ==
    \A h \in DOMAIN current_votes :
        \A i, j \in 1..Len(current_votes[h]) :
            i # j => current_votes[h][i].validator_id # current_votes[h][j].validator_id

\* a process_vote step of a validator the directory knows: the first vote of
\* the validator for the hash since the hash was last cleared returns Ok and is
\* appended; any later one returns ValidationFailed and leaves every list as
\* it was
VoteStepDeduplicates ==
    (last'.op = "process_vote" /\ contains(directory, last'.id)) =>
        LET vote == last'.arg
            h == vote.block_hash
        IN  IF ~SameVoter(accepted, vote)
            THEN /\ last'.res = "Ok"
                 /\ DOMAIN current_votes' = DOMAIN current_votes \cup {h}
                 /\ current_votes'[h] = Append(VotesOf(current_votes, h), vote)
                 /\ \A x \in DOMAIN current_votes \ {h} :
                        current_votes'[x] = current_votes[x]
            ELSE /\ last'.res = "ValidationFailed"
                 /\ current_votes' = current_votes

\* C1: with no clear_votes(H) in between, the first vote of a validator for H
\* returns Ok(true) and is stored, every later one returns
\* Err(ValidationFailed) and is not stored; no vote list ever holds two votes
\* of one validator, and a rejected vote does not lengthen it.
C1_FirstVoteOnly == [](NoDuplicateVoters) /\ [][VoteStepDeduplicates]_vars

\* a second vote of a validator for a hash has just been rejected, after a
\* vote of another validator was stored behind the first
C1_Witness ==
    /\ last.op = "process_vote"
    /\ last.res = "ValidationFailed"
    /\ Len(VotesOf(current_votes, last.arg.block_hash)) = 2
    /\ current_votes[last.arg.block_hash][1].validator_id = last.id

\* the step is a vote for a hash by a validator of the directory that has
\* voted for the hash already, has a ledger record, is not banned and has no
\* double vote on its record
SecondVoteOfCleanValidator ==
    /\ last'.op = "process_vote"
    /\ budget' # budget
    /\ contains(directory, last'.id)
    /\ SameVoter(accepted, last'.arg)
    /\ last'.id \in Registered
    /\ ~reputations[last'.id].is_banned
    /\ reputations[last'.id].double_votes = 0

\* C13 as stated: the second vote returns Err(ValidationFailed), double_votes
\* becomes 1 and the score is lower by exactly double_vote_penalty.
SecondVoteCostsPenalty ==
    SecondVoteOfCleanValidator =>
        /\ last'.res = "ValidationFailed"
        /\ reputations'[last'.id].double_votes = 1
        /\ reputations'[last'.id].score =
              reputations[last'.id].score - double_vote_penalty

C13_ExactPenalty == [][SecondVoteCostsPenalty]_vars

\* the second vote on a score of at least 30 and on a lower score
SecondVoteCostsPenaltyOrFloor ==
    SecondVoteOfCleanValidator =>
        LET pre == reputations[last'.id]
            post == reputations'[last'.id]
        IN  /\ last'.res = "ValidationFailed"
            /\ post.double_votes = 1
            /\ post.score = IF pre.score >= 10 + double_vote_penalty
                            THEN pre.score - double_vote_penalty
                            ELSE 10
            /\ pre.score = 50 => post.score = 30
            /\ post.is_banned <=> pre.score < ban_threshold + double_vote_penalty

\* C13, amended: when a validator that is registered in the directory and in
\* the ledger, not banned, with double_votes = 0, votes for hash H and then
\* votes again for H, the second process_vote returns Err(ValidationFailed)
\* and double_votes becomes 1; the score is lower by exactly
\* double_vote_penalty (50 to 30) when it was at least 30, and is 10, the floor
\* of the ban the penalty brings, when it was lower.
C13_DoubleVotePenalty == [][SecondVoteCostsPenaltyOrFloor]_vars

\* the second vote of a fresh validator for a hash has just been rejected and
\* fined: 50 to 30
C13_Witness ==
    /\ last.op = "process_vote"
    /\ last.res = "ValidationFailed"
    /\ last.pre # None
    /\ Unwrap(last.pre).score = 50
    /\ Unwrap(last.pre).double_votes = 0
    /\ reputations[last.id].score = 30
    /\ reputations[last.id].double_votes = 1
    /\ ~reputations[last.id].is_banned

\* C18: process_vote for a validator_id the directory does not know returns
\* Err(InvalidProposer) and changes nothing: no vote is stored, no entry is
\* made for the hash, no reputation record changes.
C18_UnknownVoterRejected ==
    [][(last'.op = "process_vote" /\ budget' # budget
          /\ ~contains(directory, last'.id)) =>
          /\ last'.res = "InvalidProposer"
          /\ current_votes' = current_votes
          /\ reputations' = reputations]_vars

\* the vote of a validator that has a ledger record and is unknown to the
\* directory has just been rejected, for a hash without an entry
C18_Witness ==
    /\ last.op = "process_vote"
    /\ last.res = "InvalidProposer"
    /\ last.id \in Registered
    /\ last.pre = Some(reputations[last.id])
    /\ last.arg.block_hash \notin DOMAIN current_votes

\* a clear_votes step takes the hash back to the state without votes and
\* touches neither another hash nor the ledger
ClearStepRemovesTheHash ==
    (last'.op = "clear_votes" /\ budget' # budget) =>
        LET h == last'.id
        IN  /\ VotesOf(current_votes', h) = <<>>
            /\ TallyOf(current_votes', directory', approval_threshold', h) = None
            /\ ~FinalityOf(current_votes', directory', approval_threshold', h)
            /\ \A other \in Hashes \ {h} :
                  /\ VotesOf(current_votes', other) = VotesOf(current_votes, other)
                  /\ TallyOf(current_votes', directory', approval_threshold', other)
                        = TallyOf(current_votes, directory, approval_threshold, other)
            /\ reputations' = reputations

\* the vote of a known validator for a hash that has just been cleared is
\* accepted and costs nothing, whoever had voted for the hash before
VoteAfterClearIsFirstVote ==
    (/\ last.op = "clear_votes"
     /\ last'.op = "process_vote"
     /\ budget' # budget
     /\ last'.arg.block_hash = last.id
     /\ contains(directory, last'.id)) =>
        /\ last'.res = "Ok"
        /\ VotesOf(current_votes', last.id) = <<last'.arg>>
        /\ reputations' = reputations

\* C28: clear_votes(H) removes exactly the votes of H: afterwards H is back in
\* the NoVotes state (tally_votes(H) is None, has_reached_finality(H) is false,
\* and a validator that had voted for H can vote for H again with Ok(true) and
\* no penalty), while the votes and tallies of every other hash and all
\* reputation records are unchanged.
C28_ClearVotes == [][ClearStepRemovesTheHash /\ VoteAfterClearIsFirstVote]_vars

\* clear_votes has just purged a hash on which one validator had been fined
\* for a second vote, while the other hash keeps the vote of another validator
C28_Witness ==
    /\ last.op = "clear_votes"
    /\ tally_votes(last.id) = None
    /\ \E other \in Hashes \ {last.id} : \E a, b \in IDs :
          /\ a # b
          /\ Len(VotesOf(current_votes, other)) = 1
          /\ VotesOf(current_votes, other)[1].validator_id = a
          /\ tally_votes(other) # None
          /\ b \in Registered
          /\ reputations[b].double_votes = 1

-----------------------------------------------------------------------------
(* Properties of the reputation ledger *)

\* C2: after any sequence of add_validator, update_reputation, ban_validator,
\* set_reputation and update_offline_status every record has a score between
\* 0 and 100.
C2_ScoreInRange ==
    \A id \in Registered : 0 <= reputations[id].score /\ reputations[id].score <= 100

\* a reward has just been applied to a validator that was at 100 already
C2_Witness ==
    /\ last.op = "update_reputation"
    /\ last.res = "Ok"
    /\ Adjustment(last.arg) > 0
    /\ Unwrap(last.pre).score = 100
    /\ reputations[last.id].score = 100

\* C6: update_reputation(id, action) on an id without a record returns an
\* error for every action and leaves the ledger as it was: no record is
\* created for id, no other record changes.
C6_UnknownIdRejected ==
    [][(last'.op = "update_reputation" /\ last'.id \notin Registered) =>
          (last'.res = "NotFound" /\ reputations' = reputations)]_vars

\* update_reputation has just failed on an unregistered id while another
\* validator has a record
C6_Witness ==
    /\ last.op = "update_reputation"
    /\ last.res = "NotFound"
    /\ last.id \notin Registered
    /\ Registered # {}

\* C7: update_reputation on a record with is_banned = true fails with the
\* Banned error exactly when the time of the call is before banned_until, and
\* then score, counters, is_banned and banned_until are as before; at or after
\* banned_until the ban is cleared and the action is applied as it is to a
\* validator that is not banned.
C7_LazyBanExpiry ==
    (last.op = "update_reputation" /\ last.pre # None /\ Unwrap(last.pre).is_banned) =>
        LET pre == Unwrap(last.pre)
            post == reputations[last.id]
            until == Unwrap(pre.banned_until)
            cleared == [pre EXCEPT !.is_banned = FALSE, !.banned_until = None]
        IN  /\ last.res = "Banned" <=> now < until
            /\ now < until =>
                 /\ post.score = pre.score
                 /\ Counters(post) = Counters(pre)
                 /\ post.is_banned
                 /\ post.banned_until = pre.banned_until
            /\ now >= until =>
                 /\ last.res = "Ok"
                 /\ post = UpdateRecord(cleared, last.arg, now).rep
                 /\ post.banned_until # pre.banned_until

\* update_reputation has just succeeded on a validator whose ban had run out
\* at the very instant of the call
C7_Witness ==
    /\ last.op = "update_reputation"
    /\ last.res = "Ok"
    /\ last.pre # None
    /\ Unwrap(last.pre).is_banned
    /\ Unwrap(Unwrap(last.pre).banned_until) = now

\* C8: a successful update_reputation bans the validator if and only if the
\* adjustment of the action is negative and the clamped new score is below
\* ban_threshold; an action with a positive adjustment never bans.
C8_BanOnlyOnPenalty ==
    (last.op = "update_reputation" /\ last.res = "Ok") =>
        LET pre == Unwrap(last.pre)
            post == reputations[last.id]
            adjustment == Adjustment(last.arg)
            clamped == Min(Max(pre.score + adjustment, 0), 100)
        IN  /\ post.is_banned <=> (adjustment < 0 /\ clamped < ban_threshold)
            /\ adjustment > 0 => ~post.is_banned

\* a reward has just been applied to a validator whose score stays below
\* ban_threshold
C8_Witness ==
    /\ last.op = "update_reputation"
    /\ last.res = "Ok"
    /\ Adjustment(last.arg) > 0
    /\ reputations[last.id].score < ban_threshold
    /\ ~reputations[last.id].is_banned

\* C9: when update_reputation bans a validator whose counters after the
\* increment of the call are double_votes = d and invalid_proposals = p,
\* banned_until is the time of the call + initial_ban_duration * (1+d) * (1+p).
C9_BanDurationEscalates ==
    (last.op = "update_reputation" /\ last.res = "Ok"
        /\ reputations[last.id].is_banned) =>
        LET post == reputations[last.id]
        IN  post.banned_until =
                Some(now + initial_ban_duration * (1 + post.double_votes)
                                                * (1 + post.invalid_proposals))

\* update_reputation has just banned a validator that has two double votes and
\* an invalid proposal on its record
C9_Witness ==
    /\ last.op = "update_reputation"
    /\ last.res = "Ok"
    /\ reputations[last.id].is_banned
    /\ reputations[last.id].double_votes = 2
    /\ reputations[last.id].invalid_proposals = 1

\* a step that applies a ban leaves is_banned set, banned_until at the time of
\* the call plus the duration, and the score at the larger of 10 and the score
\* the ban step found
BanStepFloorsScore ==
    \A id \in Registered :
        LET pre == reputations[id]
            post == reputations'[id]
            scored(action) == Min(Max(pre.score + Adjustment(action), 0), 100)
            escalated ==
                Some(now + initial_ban_duration * (1 + post.double_votes)
                                                * (1 + post.invalid_proposals))
        IN  /\ (last'.op = "ban_validator" /\ last'.id = id) =>
                 /\ last'.res = "Ok"
                 /\ post.is_banned
                 /\ post.banned_until = Some(now + last'.arg)
                 /\ post.score = Max(pre.score, 10)
            /\ (last'.op = "update_reputation" /\ last'.id = id
                  /\ last'.res = "Ok" /\ post.is_banned) =>
                 /\ post.banned_until = escalated
                 /\ post.score = Max(scored(last'.arg), 10)
            /\ (last'.op = "update_offline_status" /\ ~pre.is_banned
                  /\ post.is_banned) =>
                 /\ post.banned_until = escalated
                 /\ post.score = Max(scored("Offline"), 10)

\* C10: whenever a ban is applied, by the scoring path of update_reputation or
\* by ban_validator, the record afterwards has is_banned = true, banned_until =
\* now + duration and score = max(score before the ban step, 10).
C10_BanFloorsScore == [][BanStepFloorsScore]_vars

\* ban_validator has just banned a validator whose score was below 10
C10_Witness ==
    /\ last.op = "ban_validator"
    /\ last.res = "Ok"
    /\ Unwrap(last.pre).score < 10
    /\ reputations[last.id].score = 10
    /\ reputations[last.id].is_banned

\* the ban flag of every record, as stored and as the queries report it
BanFlagFollowsBannedUntil ==
    /\ \A id \in Registered :
          LET rep == reputations[id]
          IN  /\ rep.is_banned <=> rep.banned_until # None
              /\ (rep.banned_until # None /\ now < Unwrap(rep.banned_until))
                    => rep.is_banned
              /\ is_banned(reputations, id) <=> rep.banned_until # None
    /\ \A id \in IDs \ Registered : ~is_banned(reputations, id)
    /\ get_active_validators(reputations) =
          {id \in Registered : reputations[id].banned_until = None}

\* the ban flag of a record is cleared by nothing but an update_reputation
\* call for that validator made at or after banned_until
BanFlagClearedLazily ==
    \A id \in Registered :
        (reputations[id].is_banned /\ ~reputations'[id].is_banned) =>
            /\ last'.op = "update_reputation"
            /\ last'.id = id
            /\ now >= Unwrap(reputations[id].banned_until)

\* C11 as stated: in every state each record has is_banned = true exactly when
\* banned_until is set and the current time is before it, so is_banned(id) and
\* get_active_validators never treat a validator as banned once banned_until
\* has passed.
C11_BannedIffBeforeExpiry ==
    \A id \in Registered :
        LET rep == reputations[id]
            running == rep.banned_until # None /\ now < Unwrap(rep.banned_until)
        IN  /\ rep.is_banned <=> running
            /\ ~running => (~is_banned(reputations, id)
                             /\ id \in get_active_validators(reputations))

\* C11, amended: each record has is_banned = true exactly when banned_until is
\* set, and so whenever the current time is before banned_until; once
\* banned_until has passed the flag stays set until the next update_reputation
\* call for that validator, and is_banned(id) and get_active_validators, which
\* read the stored flag, report the validator as banned until then.
C11_BanFlagLazy == [](BanFlagFollowsBannedUntil) /\ [][BanFlagClearedLazily]_vars

\* the clock has passed banned_until of a validator that the queries still
\* report as banned
C11_Witness ==
    \E id \in Registered :
        /\ reputations[id].banned_until # None
        /\ now > Unwrap(reputations[id].banned_until)
        /\ is_banned(reputations, id)
        /\ id \notin get_active_validators(reputations)

\* the step is the second of two successive update_reputation(id, DoubleVote)
\* calls on a validator that was registered and not banned before the first
SecondDoubleVote ==
    /\ last.op = "update_reputation"
    /\ last.arg = "DoubleVote"
    /\ last.pre # None
    /\ ~Unwrap(last.pre).is_banned
    /\ budget' # budget
    /\ last'.op = "update_reputation"
    /\ last'.arg = "DoubleVote"
    /\ last'.id = last.id

\* C12 as stated: each of the two calls strictly lowers the score, unless it
\* sits at its floor (the 10 a ban leaves, or less), and double_votes grows by
\* 2 over the two calls.
TwoDoubleVotesBothCount ==
    SecondDoubleVote =>
        LET r0 == Unwrap(last.pre)
            r1 == reputations[last.id]
            r2 == reputations'[last.id]
        IN  /\ r0.score > 10 => r1.score < r0.score
            /\ r1.score > 10 => r2.score < r1.score
            /\ r1.double_votes = r0.double_votes + 1
            /\ r2.double_votes = r0.double_votes + 2

C12_BothCallsCount == [][TwoDoubleVotesBothCount]_vars

\* the two calls on a score of at least 35 and on a lower score
TwoDoubleVotesUnlessBanned ==
    SecondDoubleVote =>
        LET r0 == Unwrap(last.pre)
            r1 == reputations[last.id]
            r2 == reputations'[last.id]
        IN  /\ r1.double_votes = r0.double_votes + 1
            /\ r0.score > 10 => r1.score < r0.score
            /\ IF r0.score >= ban_threshold + double_vote_penalty
               THEN /\ ~r1.is_banned
                    /\ r1.score = r0.score - double_vote_penalty
                    /\ last'.res = "Ok"
                    /\ r2.score < r1.score
                    /\ r2.double_votes = r0.double_votes + 2
               ELSE /\ r1.is_banned
                    /\ r1.score = Max(r0.score - double_vote_penalty, 10)
                    /\ last'.res = "Banned"
                    /\ r2.score = r1.score
                    /\ r2.double_votes = r1.double_votes

\* C12, amended: for a registered, non-banned validator with a score of at
\* least 35 two successive update_reputation(id, DoubleVote) calls each
\* strictly lower the score and each increment double_votes by 1; with a score
\* below 35 the first call increments double_votes and bans the validator, and
\* the second call fails with the Banned error and changes neither score nor
\* double_votes.
C12_DoubleVoteTwice == [][TwoDoubleVotesUnlessBanned]_vars

\* the second of two DoubleVote calls on a fresh validator has just been
\* applied: 50, 30, 10
C12_Witness ==
    /\ last.op = "update_reputation"
    /\ last.arg = "DoubleVote"
    /\ last.res = "Ok"
    /\ Unwrap(last.pre).score = 30
    /\ Unwrap(last.pre).double_votes = 1
    /\ reputations[last.id].score = 10
    /\ reputations[last.id].double_votes = 2

\* the record the Offline action leaves of a record that is not banned
OfflineApplied(pre, t) ==
    LET lowered == Max(pre.score - offline_penalty, 0)
        bans == lowered < ban_threshold
    IN  [pre EXCEPT !.last_seen = t,
                    !.score = IF bans THEN Max(lowered, 10) ELSE lowered,
                    !.is_banned = bans,
                    !.banned_until =
                        IF bans
                        THEN Some(t + initial_ban_duration * (1 + pre.double_votes)
                                                           * (1 + pre.invalid_proposals))
                        ELSE None]

\* an update_offline_status step fines the validators that are not banned and
\* were last seen longer ago than the threshold, and no other
OfflineStepFinesTheAbsent ==
    (last'.op = "update_offline_status" /\ budget' # budget) =>
        /\ DOMAIN reputations' = Registered
        /\ \A id \in Registered :
              LET pre == reputations[id]
                  post == reputations'[id]
              IN  IF ~pre.is_banned /\ now - pre.last_seen > last'.arg
                  THEN post = OfflineApplied(pre, now)
                  ELSE post = pre

\* C23: update_offline_status(threshold) applies the Offline action exactly once
\* to each registered validator that is not banned and whose last_seen is older
\* than threshold, and leaves the record of every other validator (banned, or
\* seen within threshold) unchanged.
C23_OfflineSweep == [][OfflineStepFinesTheAbsent]_vars

\* update_offline_status has just fined one validator once and passed over
\* another that was banned although it had been away for as long
C23_Witness ==
    /\ last.op = "update_offline_status"
    /\ \E a, b \in Registered :
          /\ reputations[a].score = 50 - offline_penalty
          /\ reputations[a].last_seen = now
          /\ reputations[b].is_banned
          /\ now - reputations[b].last_seen > last.arg

\* a ban_validator step
BanValidatorStep ==
    (last'.op = "ban_validator" /\ budget' # budget) =>
        IF last'.id \in Registered
        THEN LET pre == reputations[last'.id]
                 post == reputations'[last'.id]
             IN  /\ last'.res = "Ok"
                 /\ DOMAIN reputations' = Registered
                 /\ post.is_banned
                 /\ post.banned_until = Some(now + last'.arg)
                 /\ Counters(post) = Counters(pre)
                 /\ \A other \in Registered \ {last'.id} :
                       reputations'[other] = reputations[other]
        ELSE /\ last'.res = "NotFound"
             /\ reputations' = reputations

\* C24: ban_validator(id, d) on an unregistered id returns an error and changes
\* nothing; on a registered id it returns Ok and sets is_banned = true and
\* banned_until = now + d whatever the current score is, without changing any
\* of the six counters.
C24_AdministrativeBan == [][BanValidatorStep]_vars

\* ban_validator has just replaced a running ban by one that ends earlier
C24_Witness ==
    /\ last.op = "ban_validator"
    /\ last.res = "Ok"
    /\ Unwrap(last.pre).is_banned
    /\ Unwrap(Unwrap(last.pre).banned_until) > now + last.arg
    /\ reputations[last.id].banned_until = Some(now + last.arg)

\* a score brought into [0, 100]; NaN, which no comparison orders, becomes 0
ClampedInto0To100(x) ==
    IF x.nan THEN 0
    ELSE IF x.val < 0 THEN 0
    ELSE IF x.val > 100 THEN 100
    ELSE x.val

\* a set_reputation step
SetReputationStep ==
    (last'.op = "set_reputation" /\ budget' # budget) =>
        IF last'.id \in Registered
        THEN /\ last'.res = "Ok"
             /\ reputations' =
                  [reputations EXCEPT
                     ![last'.id].score = ClampedInto0To100(last'.arg)]
             /\ reputations'[last'.id].score \in 0..100
        ELSE /\ last'.res = "NotFound"
             /\ reputations' = reputations

\* C25: set_reputation(id, s) on a registered id sets score to s clamped into
\* [0, 100] and changes nothing else: counters, last_seen, is_banned and
\* banned_until keep their values (a score set below ban_threshold does not
\* ban, and the call succeeds on a banned validator); on an unregistered id it
\* returns an error and creates no record.
C25_SetReputationFrame == [][SetReputationStep]_vars

\* set_reputation has just brought 150 down to 100 on a banned validator, which
\* stays banned
C25_Witness ==
    /\ last.op = "set_reputation"
    /\ last.res = "Ok"
    /\ last.arg = F32(150)
    /\ Unwrap(last.pre).is_banned
    /\ reputations[last.id].score = 100
    /\ reputations[last.id].is_banned

\* an add_validator step
AddValidatorStep ==
    (last'.op = "add_validator" /\ budget' # budget) =>
        /\ last'.res = "Ok"
        /\ DOMAIN reputations' = Registered \cup {last'.id}
        /\ \A id \in Registered : reputations'[id] = reputations[id]
        /\ last'.id \notin Registered =>
              LET rep == reputations'[last'.id]
              IN  /\ rep.score = 50
                  /\ Counters(rep) = <<0, 0, 0, 0, 0, 0>>
                  /\ ~rep.is_banned
                  /\ rep.banned_until = None
                  /\ rep.last_seen = now

\* C26: add_validator(id) is idempotent: for an absent id it creates a record
\* with score 50, all counters 0 and not banned; for an id that already has a
\* record it changes nothing, so the existing score, counters and ban state are
\* not reset.
C26_AddValidatorIdempotent == [][AddValidatorStep]_vars

\* add_validator has just been called for a validator that is banned with a
\* double vote on record, and the record is as it was
C26_Witness ==
    /\ last.op = "add_validator"
    /\ last.pre # None
    /\ Unwrap(last.pre).is_banned
    /\ Unwrap(last.pre).double_votes > 0
    /\ reputations[last.id] = Unwrap(last.pre)

\* the validators whose score, counters or ban status the step changes
Affected ==
    {id \in Registered : Standing(reputations'[id]) # Standing(reputations[id])}

\* the operations of the ledger that change a record
LedgerOps ==
    {"update_reputation", "ban_validator", "set_reputation", "update_offline_status"}

\* a ledger operation stamps every record it changes
ChangeStampsLastSeen ==
    (last'.op \in LedgerOps /\ budget' # budget) =>
        \A id \in Affected : reputations'[id].last_seen = now

\* C27 as stated: every ledger operation that changes a validator's score,
\* counters or ban status (update_reputation, ban_validator, set_reputation,
\* update_offline_status) also sets that validator's last_seen to the current
\* time.
C27_EveryChangeStamps == [][ChangeStampsLastSeen]_vars

\* update_reputation stamps the record it is called for, changed or not, and
\* update_offline_status the records it fines; ban_validator and
\* set_reputation leave every last_seen as it was
UpdateStampsLastSeen ==
    /\ (last'.op = "update_reputation" /\ budget' # budget
          /\ last'.id \in Registered) =>
             reputations'[last'.id].last_seen = now
    /\ (last'.op = "update_offline_status" /\ budget' # budget) =>
             \A id \in Affected : reputations'[id].last_seen = now
    /\ (last'.op \in {"ban_validator", "set_reputation"} /\ budget' # budget) =>
             \A id \in Registered :
                 reputations'[id].last_seen = reputations[id].last_seen

\* C27, amended: update_reputation, and so update_offline_status for each
\* validator it fines, sets the validator's last_seen to the current time;
\* ban_validator and set_reputation change the ban status or the score and
\* leave last_seen unchanged.
C27_UpdateStampsLastSeen == [][UpdateStampsLastSeen]_vars

\* ban_validator has just banned a validator that was last seen earlier, and
\* last_seen is still that earlier time
C27_Witness ==
    /\ last.op = "ban_validator"
    /\ last.res = "Ok"
    /\ ~Unwrap(last.pre).is_banned
    /\ reputations[last.id].is_banned
    /\ reputations[last.id].last_seen = Unwrap(last.pre).last_seen
    /\ reputations[last.id].last_seen < now

-----------------------------------------------------------------------------
(* NonceRegistry and Transaction::validate                                  *)
(* (src/src/transaction/transaction.rs).  validate reads the wall clock in  *)
(* seconds, which is the clock now here.                                    *)

TIMESTAMP_WINDOW == 300
MIN_ADDRESS_LENGTH == 32
MAX_ADDRESS_LENGTH == 64
MAX_AMOUNT == 1000000000
MIN_AMOUNT == 1
MAX_TRANSACTION_SIZE == 128 * 1024

\* an address: its text, the length of the text, and whether every character
\* of it is a letter or a digit
Address(text, len, alphanumeric) ==
    [text |-> text, len |-> len, alphanumeric |-> alphanumeric]

\* the fields of a Transaction that validate reads, and the length of its
\* serialization
Transaction(from, to, amount, timestamp, nonce, size) ==
    [from |-> from, to |-> to, amount |-> amount, timestamp |-> timestamp,
     nonce |-> nonce, size |-> size]

\* registry.get(address).copied().unwrap_or(0)
last_nonce(reg, address) == IF address \in DOMAIN reg THEN reg[address] ELSE 0

\* a registry that takes the last nonce once more
NonceResultAllowsEqual(reg, address, nonce) ==
    IF nonce < last_nonce(reg, address) THEN "NonceOverflow" ELSE "Ok"

\* what validate_nonce(address, nonce) returns
NonceResult(reg, address, nonce) ==
    IF nonce <= last_nonce(reg, address) THEN "NonceOverflow" ELSE "Ok"

\* the registry after validate_nonce(address, nonce)
RegistryAfter(reg, address, nonce) ==
    IF NonceResult(reg, address, nonce) = "Ok"
    THEN [x \in DOMAIN reg \cup {address} |-> IF x = address THEN nonce ELSE reg[x]]
    ELSE reg

\* the regular expression ^[a-zA-Z0-9]{32,64}$
MatchesAddress(address) ==
    /\ address.alphanumeric
    /\ address.len >= MIN_ADDRESS_LENGTH
    /\ address.len <= MAX_ADDRESS_LENGTH

\* Transaction::validate_address
validate_address(tx) ==
    IF ~MatchesAddress(tx.from) \/ ~MatchesAddress(tx.to) THEN "AddressFormatInvalid"
    ELSE IF tx.from.text = tx.to.text THEN "AddressFormatInvalid"
    ELSE "Ok"

\* Transaction::validate_timestamp, at the wall clock it reads
validate_timestamp(tx, clock) ==
    LET diff == clock - tx.timestamp
        abs == IF diff < 0 THEN 0 - diff ELSE diff
    IN  IF abs <= TIMESTAMP_WINDOW THEN "Ok" ELSE "TimestampInvalid"

\* the checks of validate that come before the nonce
BeforeNonce(tx, clock) ==
    IF tx.amount < MIN_AMOUNT \/ tx.amount > MAX_AMOUNT THEN "InvalidData"
    ELSE IF validate_address(tx) # "Ok" THEN validate_address(tx)
    ELSE validate_timestamp(tx, clock)

\* what Transaction::validate returns
ValidateResult(reg, tx, clock) ==
    IF BeforeNonce(tx, clock) # "Ok" THEN BeforeNonce(tx, clock)
    ELSE IF NonceResult(reg, tx.from.text, tx.nonce) # "Ok" THEN "NonceOverflow"
    ELSE IF tx.size > MAX_TRANSACTION_SIZE THEN "DataSizeExceeded"
    ELSE "Ok"

\* the registry after Transaction::validate: the nonce is recorded before the
\* size is looked at
RegistryAfterValidate(reg, tx, clock) ==
    IF BeforeNonce(tx, clock) = "Ok" THEN RegistryAfter(reg, tx.from.text, tx.nonce)
    ELSE reg

\* what a call on the registry leaves alone
NoConsensus ==
    UNCHANGED <<now, reputations, directory, current_votes, approval_threshold,
                accepted, threads, poisoned>>

\* Transaction::validate
validate(tx) ==
    LET res == ValidateResult(registry, tx, now)
    IN  /\ budget > 0
        /\ budget' = budget - 1
        /\ registry' = RegistryAfterValidate(registry, tx, now)
        /\ validated' = IF res = "Ok" THEN validated \cup {tx} ELSE validated
        /\ last' = Call("validate", "", tx, res)
        /\ NoConsensus

\* NonceRegistry::validate_nonce
validate_nonce(address, nonce) ==
    /\ budget > 0
    /\ budget' = budget - 1
    /\ registry' = RegistryAfter(registry, address, nonce)
    /\ last' = Call("validate_nonce", "", [address |-> address, nonce |-> nonce],
                    NonceResult(registry, address, nonce))
    /\ UNCHANGED validated
    /\ NoConsensus

\* calls in one run of the nonce specification
MaxNonceSteps == 3

\* two addresses of the shortest and the longest length, and one too short
Alice == Address("alice", MIN_ADDRESS_LENGTH, TRUE)
Bob == Address("bob", MAX_ADDRESS_LENGTH, TRUE)
Short == Address("short", MIN_ADDRESS_LENGTH - 1, TRUE)

\* nonces of the transactions: Transaction::new sets 1
Nonces == 0..2

\* timestamps of a transaction at the edges of the window around the clock
TxTimestamps(clock) ==
    {clock - TIMESTAMP_WINDOW - 1, clock - TIMESTAMP_WINDOW, clock,
     clock + TIMESTAMP_WINDOW, clock + TIMESTAMP_WINDOW + 1}

\* transactions handed to validate: transfers between the two addresses with
\* every nonce and timestamp, and for each other check one transfer it rejects
TransactionInputs(clock) ==
    {Transaction(from, to, MIN_AMOUNT, ts, nonce, MAX_TRANSACTION_SIZE) :
        from \in {Alice}, to \in {Bob}, ts \in TxTimestamps(clock), nonce \in Nonces}
    \cup {Transaction(Bob, Alice, MAX_AMOUNT, clock, nonce, MAX_TRANSACTION_SIZE) :
            nonce \in Nonces}
    \cup {Transaction(Alice, Bob, amount, clock, 1, MAX_TRANSACTION_SIZE) :
            amount \in {MIN_AMOUNT - 1, MAX_AMOUNT + 1}}
    \cup {Transaction(Alice, to, MIN_AMOUNT, clock, 1, MAX_TRANSACTION_SIZE) :
            to \in {Alice, Short}}
    \cup {Transaction(Alice, Bob, MIN_AMOUNT, clock, 2, MAX_TRANSACTION_SIZE + 1)}

InitNonce ==
    /\ now = 0
    /\ reputations = EmptyMap
    /\ directory = EmptyMap
    /\ current_votes = EmptyMap
    /\ accepted = {}
    /\ approval_threshold = 66
    /\ last = NoCall
    /\ budget = MaxNonceSteps
    /\ threads = NoThreads
    /\ NoPanics
    /\ NoTransactions

NextNonce ==
    \/ \E tx \in validated \cup TransactionInputs(now) : validate(tx)
    \/ \E address \in {"alice", "bob"}, nonce \in Nonces : validate_nonce(address, nonce)
    \/ \E d \in {TIMESTAMP_WINDOW, TIMESTAMP_WINDOW + 1} : Tick(d)

SpecNonce == InitNonce /\ [][NextNonce]_vars

-----------------------------------------------------------------------------
(* Properties of the nonce registry *)

\* validate_nonce(address, n) succeeds only when n is greater than the last
\* nonce accepted for the address, 0 when none, and records n then
NonceStepAcceptsGreater ==
    (last'.op = "validate_nonce" /\ budget' # budget) =>
        LET address == last'.arg.address
            n == last'.arg.nonce
            prev == IF address \in DOMAIN registry THEN registry[address] ELSE 0
        IN  /\ last'.res = "Ok" <=> n > prev
            /\ last'.res = "Ok" =>
                  registry' = [x \in DOMAIN registry \cup {address} |->
                                 IF x = address THEN n ELSE registry[x]]
            /\ last'.res # "Ok" =>
                  (last'.res = "NonceOverflow" /\ registry' = registry)

\* the nonce the registry holds for an address changes only to a greater one
NoncesIncrease ==
    /\ DOMAIN registry \subseteq DOMAIN registry'
    /\ \A address \in DOMAIN registry' :
          LET prev == IF address \in DOMAIN registry THEN registry[address] ELSE 0
          IN  registry'[address] = prev \/ registry'[address] > prev

\* a validate step on a transaction that validate accepted before
Replay == last'.op = "validate" /\ budget' # budget /\ last'.arg \in validated

\* a replay is rejected with NonceOverflow
ReplayIsNonceOverflow == Replay => last'.res = "NonceOverflow"

\* a replay is rejected, by the nonce while the timestamp is within the window
\* of the clock and by the timestamp afterwards, and records nothing
ReplayIsRejected ==
    Replay =>
        LET tx == last'.arg
            within == /\ now - tx.timestamp <= TIMESTAMP_WINDOW
                      /\ tx.timestamp - now <= TIMESTAMP_WINDOW
        IN  /\ last'.res = IF within THEN "NonceOverflow" ELSE "TimestampInvalid"
            /\ registry' = registry
            /\ validated' = validated

-----------------------------------------------------------------------------
(* Properties of tally_votes.  A caller may tally in every state, so what   *)
(* holds of every result a call has just returned holds of every tally.    *)

\* history: the votes accepted for a hash since it was last cleared
AcceptedFor(h) == {a \in accepted : a.block_hash = h}

\* tally_votes has just returned a result
Tallied == last.op = "tally_votes" /\ last.res # None

\* C3: for every hash with at least one vote, reached_quorum is true exactly
\* when the number of votes is at least floor(active * 2 / 3): the integer
\* votes satisfies that exactly when 3 * votes + 2 >= 2 * active, and the
\* threshold is 2 for 4 active validators and 6 for 10.
C3_QuorumFloor ==
    /\ (last.op = "tally_votes" /\ AcceptedFor(last.id) # {}) => last.res # None
    /\ Tallied =>
        LET r == Unwrap(last.res)
            votes == Cardinality(AcceptedFor(last.id))
            active == count_active(directory)
        IN  /\ r.reached_quorum <=> 3 * votes + 2 >= 2 * active
            /\ active = 4 => (r.reached_quorum <=> votes >= 2)
            /\ active = 10 => (r.reached_quorum <=> votes >= 6)

\* a tally of 6 votes under 10 active validators has just reported the quorum
C3_Witness ==
    /\ Tallied
    /\ count_active(directory) = 10
    /\ Unwrap(last.res).total_votes = 6
    /\ Unwrap(last.res).reached_quorum

\* C4: is_approved is true if and only if reached_quorum is true and
\* approval_percentage >= approval_threshold, a percentage equal to the
\* threshold counting as approved; has_reached_finality(H) is that is_approved,
\* and false when tally_votes(H) is None.
C4_ApprovalRule ==
    /\ Tallied =>
        LET r == Unwrap(last.res)
        IN  /\ r.is_approved <=>
                   (r.reached_quorum
                    /\ F32Ge(r.approval_percentage, approval_threshold))
            /\ (r.reached_quorum
                /\ F32Eq(r.approval_percentage, approval_threshold))
                   => r.is_approved
    /\ last.op = "has_reached_finality" =>
        LET tally == tally_votes(last.id)
        IN  last.res = (tally # None /\ Unwrap(tally).is_approved)

\* has_reached_finality has just returned true for a hash whose approval
\* percentage is exactly the threshold
C4_Witness ==
    /\ last.op = "has_reached_finality"
    /\ last.res = TRUE
    /\ F32Eq(Unwrap(tally_votes(last.id)).approval_percentage, approval_threshold)

\* the counts of a tally are those of the accepted votes
TallyCounts(h, r) ==
    /\ r.total_votes = Cardinality(AcceptedFor(h))
    /\ r.votes_in_favor = Cardinality({a \in AcceptedFor(h) : a.is_in_favor})
    /\ r.votes_against = r.total_votes - r.votes_in_favor

\* 4 active validators, 3 votes in favor, 1 against, threshold 66: total 4,
\* exactly 75 percent, quorum reached, approved
ScenarioA(h, r) ==
    (/\ count_active(directory) = 4
     /\ Cardinality(AcceptedFor(h)) = 4
     /\ Cardinality({a \in AcceptedFor(h) : a.is_in_favor}) = 3
     /\ approval_threshold = 66) =>
        /\ r.total_votes = 4
        /\ F32Eq(r.approval_percentage, 75)
        /\ r.reached_quorum
        /\ r.is_approved

\* the distance of an f32 from n / d, times d * 2^k
OffBy(x, n, d) ==
    IF x.m * d >= n * Pow2(x.k) THEN x.m * d - n * Pow2(x.k)
    ELSE n * Pow2(x.k) - x.m * d

\* C5 as stated: the tally has the counts of the accepted votes and
\* approval_percentage = votes_in_favor * 100 / total_votes, read as the f32
\* quotient of the two integers (the f32 nearest to the exact value).
C5_ExactPercentage ==
    Tallied =>
        LET r == Unwrap(last.res)
        IN  /\ TallyCounts(last.id, r)
            /\ ScenarioA(last.id, r)
            /\ r.approval_percentage = F32Div(r.votes_in_favor * 100, r.total_votes)

\* C5, amended: the tally has the counts of the accepted votes;
\* approval_percentage is between 0 and 100 and less than 0.0001 away from
\* votes_in_favor * 100 / total_votes; scenario A gives exactly 75 percent.
C5_TallyCounts ==
    Tallied =>
        LET r == Unwrap(last.res)
            x == r.approval_percentage
        IN  /\ TallyCounts(last.id, r)
            /\ ScenarioA(last.id, r)
            /\ F32Ge(x, 0)
            /\ x.m <= 100 * Pow2(x.k)
            /\ OffBy(x, r.votes_in_favor * 100, r.total_votes) * 10000
                   < r.total_votes * Pow2(x.k)

\* scenario A has just been tallied
C5_Witness ==
    /\ Tallied
    /\ count_active(directory) = 4
    /\ approval_threshold = 66
    /\ Unwrap(last.res).total_votes = 4
    /\ Unwrap(last.res).votes_in_favor = 3
    /\ Unwrap(last.res).votes_against = 1
    /\ F32Eq(Unwrap(last.res).approval_percentage, 75)
    /\ Unwrap(last.res).is_approved

-----------------------------------------------------------------------------
(* Properties of the queries and the scoring of the ledger *)

\* the score of a validator, 0 for one that is not registered
ScoreOrZero(id) == IF id \in Registered THEN reputations[id].score ELSE 0

\* the f32 x is the one nearest to n / d
NearestTo(x, n, d) ==
    /\ x.m = 0 \/ (x.m >= Pow2(23) /\ x.m < Pow2(24))
    /\ 2 * OffBy(x, n, d) <= d

\* C31: average_reputation returns 50 when no validator is registered, and
\* otherwise the sum of all scores divided by the number of registered
\* validators, banned validators included.
C31_AverageReputation ==
    LET average == average_reputation(reputations)
    IN  /\ Registered \subseteq IDs
        /\ Registered = {} => F32Eq(average, 50)
        /\ Registered # {} =>
              NearestTo(average, ScoreOrZero("v1") + ScoreOrZero("v2"),
                        Cardinality(Registered))

\* two validators are registered, one of them banned at the floor of 10 and
\* the other at 50: the average is 30
C31_Witness ==
    /\ Registered = IDs
    /\ \E a, b \in IDs :
          /\ reputations[a].is_banned
          /\ reputations[a].score = 10
          /\ ~reputations[b].is_banned
          /\ reputations[b].score = 50
    /\ F32Eq(average_reputation(reputations), 30)

\* the points an action adds to the score
SignedDelta(action) ==
    CASE action = "ValidBlockProposed" -> valid_block_points
      [] action = "CorrectVote" -> correct_vote_points
      [] action = "BackOnline" -> back_online_points
      [] action \in {"InvalidBlockProposed", "UnauthorizedProposal"} ->
            0 - invalid_block_penalty
      [] action \in {"IncorrectVote", "InvalidMessage"} -> 0 - incorrect_vote_penalty
      [] action = "Timeout" -> 0 - timeout_penalty
      [] action = "DoubleVote" -> 0 - double_vote_penalty
      [] action = "Offline" -> 0 - offline_penalty

\* the place of the counter of an action among the six counters, 0 for an
\* action without a counter
CounterOf(action) ==
    CASE action = "ValidBlockProposed" -> 1
      [] action = "InvalidBlockProposed" -> 2
      [] action = "CorrectVote" -> 3
      [] action = "IncorrectVote" -> 4
      [] action = "Timeout" -> 5
      [] action = "DoubleVote" -> 6
      [] OTHER -> 0

\* a successful update_reputation step scores and counts the action
UpdateStepScores ==
    (/\ last'.op = "update_reputation"
     /\ budget' # budget
     /\ last'.res = "Ok") =>
        LET pre == reputations[last'.id]
            post == reputations'[last'.id]
            action == last'.arg
            sum == pre.score + SignedDelta(action)
            clamped == IF sum < 0 THEN 0 ELSE IF sum > 100 THEN 100 ELSE sum
        IN  /\ post.score = IF post.is_banned /\ clamped < 10 THEN 10 ELSE clamped
            /\ \A i \in 1..6 :
                  Counters(post)[i] =
                     Counters(pre)[i] + (IF i = CounterOf(action) THEN 1 ELSE 0)
            /\ ReturnedScore(pre, action, now) = post.score

\* C32: a successful update_reputation on a non-banned validator adds the
\* signed delta of the action and clamps to [0, 100], increments by 1 exactly
\* the counter of the action for the first six actions and no counter for
\* Offline, BackOnline, InvalidMessage and UnauthorizedProposal; the value
\* returned is the stored score after any ban floor.
C32_ScoreAndCount == [][UpdateStepScores]_vars

\* a DoubleVote has just taken a validator from 12 to 0, the ban has floored
\* the score at 10 and counted the double vote
C32_Witness ==
    /\ last.op = "update_reputation"
    /\ last.res = "Ok"
    /\ last.arg = "DoubleVote"
    /\ Unwrap(last.pre).score = 12
    /\ ~Unwrap(last.pre).is_banned
    /\ reputations[last.id].score = 10
    /\ reputations[last.id].is_banned
    /\ reputations[last.id].double_votes = Unwrap(last.pre).double_votes + 1

-----------------------------------------------------------------------------
(* The finality specification: a coordinator over a directory of five      *)
(* validators, four of them active and the fifth active or not, that       *)
(* takes votes for two hashes at one height.                               *)

\* calls in one run of the finality specification
MaxFinalitySteps == 4

FinalityIDs == {"v1", "v2", "v3", "v4", "v5"}

\* votes handed to process_vote: any vote of a known validator for a hash,
\* all at height 10
FinalityVotes ==
    {ProposalVote(h, 10, id, favor) :
        h \in Hashes, id \in FinalityIDs, favor \in BOOLEAN}

InitFinality ==
    /\ now = 0
    /\ reputations = FreshLedger(FinalityIDs)
    /\ directory \in {d \in Directories(FinalityIDs) :
                         \A id \in FinalityIDs \ {"v5"} : d[id].is_active}
    /\ current_votes = EmptyMap
    /\ accepted = {}
    /\ approval_threshold = 66
    /\ last = NoCall
    /\ budget = MaxFinalitySteps
    /\ threads = NoThreads
    /\ NoPanics
    /\ NoTransactions

NextFinality ==
    \/ \E vote \in FinalityVotes : process_vote(vote)
    \/ \E h \in Hashes : clear_votes(h)
    \/ \E h \in Hashes : call_has_reached_finality(h)

SpecFinality == InitFinality /\ [][NextFinality]_vars

-----------------------------------------------------------------------------
(* The expiry specification: a ledger with one validator whose caller bans *)
(* it, lets the clock run and calls update_offline_status once per period, *)
(* for ever; nobody calls update_reputation for the validator.             *)

\* calls in one period of the expiry specification
MaxExpirySteps == 2

\* the clock of the expiry specification stops after this many half hours
MaxTicks == 3

\* the clock advances by half the initial ban duration, up to its bound
ExpiryTick ==
    /\ now < MaxTicks * (initial_ban_duration \div 2)
    /\ Tick(initial_ban_duration \div 2)

\* the periodic sweep of the offline validators
PeriodicSweep == \E threshold \in OfflineThresholds : update_offline_status(threshold)

\* the caller's timer starts another period
NextPeriod ==
    /\ budget = 0
    /\ budget' = MaxExpirySteps
    /\ UNCHANGED <<now, reputations, directory, current_votes, approval_threshold,
                   accepted, last, threads, poisoned, registry, validated>>

InitExpiry ==
    /\ now = 0
    /\ reputations = FreshLedger({"v1"})
    /\ directory = [id \in IDs |-> [is_active |-> TRUE]]
    /\ current_votes = EmptyMap
    /\ accepted = {}
    /\ approval_threshold = 66
    /\ last = NoCall
    /\ budget = MaxExpirySteps
    /\ threads = NoThreads
    /\ NoPanics
    /\ NoTransactions

NextExpiry ==
    \/ \E duration \in BanDurations : ban_validator("v1", duration)
    \/ ExpiryTick
    \/ PeriodicSweep
    \/ NextPeriod

\* the clock runs, the sweep is called in every period and the periods go on
SpecExpiry ==
    /\ InitExpiry
    /\ [][NextExpiry]_vars
    /\ WF_vars(ExpiryTick)
    /\ WF_vars(PeriodicSweep)
    /\ WF_vars(NextPeriod)

-----------------------------------------------------------------------------
(* Properties of the coordinator and of the ban across the consensus paths *)

\* the block_height in an answer of tally_votes, 0 when the answer is None
HeightIn(tally) == IF tally # None THEN Unwrap(tally).block_height ELSE 0

\* the block_height tally_votes reports for a hash
ReportedHeight(h) == HeightIn(tally_votes(h))

\* the last call stored a vote for the hash
StoredVoteFor(h) ==
    /\ last.op = "process_vote"
    /\ last.res = "Ok"
    /\ last.arg.block_hash = h

\* the last call was clear_votes of the hash
Cleared(h) == last.op = "clear_votes" /\ last.id = h

\* the first vote stored for the hash since its last clear_votes, None when
\* there is none
FirstStored(h) ==
    IF VotesOf(current_votes, h) = <<>> THEN None ELSE Some(current_votes[h][1])

\* tally_votes reports the height of the first vote stored for the hash
ReportsFirstStored ==
    \A h \in Hashes :
        ReportedHeight(h) =
            IF FirstStored(h) = None THEN 0 ELSE Unwrap(FirstStored(h)).block_height

\* the first stored vote of a hash is the vote of the first process_vote that
\* returned Ok for the hash, and stays until clear_votes of the hash
FirstStoredStep ==
    (budget' # budget) =>
        \A h \in Hashes :
            FirstStored(h)' =
                IF StoredVoteFor(h)' /\ FirstStored(h) = None THEN Some(last'.arg)
                ELSE IF Cleared(h)' THEN None
                     ELSE FirstStored(h)

\* a vote of a known validator that has not voted for the hash is stored,
\* whatever height it carries
AnyHeightIsStored ==
    (last'.op = "process_vote" /\ budget' # budget) =>
        LET vote == last'.arg
        IN  (/\ contains(directory, vote.validator_id)
             /\ ~HasVoted(VotesOf(current_votes, vote.block_hash), vote.validator_id))
            => /\ last'.res = "Ok"
               /\ current_votes'[vote.block_hash] =
                     Append(VotesOf(current_votes, vote.block_hash), vote)

\* C33: the block_height of tally_votes(H) is the block_height of the first
\* vote accepted for H since the last clear_votes(H); process_vote accepts
\* later votes for H that carry a different block_height and they do not
\* change the reported height.
C33_HeightOfFirstVote ==
    /\ []ReportsFirstStored
    /\ [][FirstStoredStep /\ AnyHeightIsStored]_vars

\* a second vote for a hash has just been stored with a height other than
\* the one the tally of the hash reports
C33_Witness ==
    \E h \in Hashes :
        /\ StoredVoteFor(h)
        /\ Len(current_votes[h]) = 2
        /\ current_votes[h][1].block_height = 10
        /\ last.arg.block_height = 11
        /\ ReportedHeight(h) = 10

\* the directory knows the validator and has it as active
ActiveVoter(id) == contains(directory, id) /\ directory[id].is_active

\* C34: process_vote checks that the voter exists and is active: a vote is
\* stored only when its validator_id is known to the directory and that
\* validator is active at the time of the call, so every vote counted by
\* tally_votes was cast by a validator that was active when it voted.
C34_VotersAreActive ==
    /\ (last.op = "process_vote" /\ last.res = "Ok") => ActiveVoter(last.id)
    /\ \A h \in DOMAIN current_votes :
          \A i \in 1..Len(current_votes[h]) :
             ActiveVoter(current_votes[h][i].validator_id)

\* the score of the record the last call found, as the scoring path clamped
\* it before it banned (ban_validator bans the score it finds)
ScoreBeforeBan ==
    IF last.op = "update_reputation"
    THEN ClampScore(check_ban_status(Unwrap(last.pre), now).score + Adjustment(last.arg))
    ELSE Unwrap(last.pre).score

\* the last call ran ValidatorReputation::ban on the record of its validator
JustBanned ==
    /\ last.op \in {"ban_validator", "update_reputation"}
    /\ last.res = "Ok"
    /\ last.id \in Registered
    /\ last.op = "update_reputation" => reputations[last.id].is_banned

\* C35: banning a validator reduces its reputation while keeping a minimum:
\* after ValidatorReputation::ban (reached through ban_validator or the
\* scoring path) the score is never higher than it was immediately before the
\* ban step.
C35_BanNeverRaisesTheScore ==
    JustBanned => reputations[last.id].score <= ScoreBeforeBan

\* every validator has at most one vote in the list of a hash
OneVotePerValidator ==
    \A h \in DOMAIN current_votes :
        \A i, j \in 1..Len(current_votes[h]) :
            current_votes[h][i].validator_id = current_votes[h][j].validator_id
                => i = j

\* the votes of the two hashes carry the same block_height
SameHeight(g, h) ==
    /\ tally_votes(g) # None
    /\ tally_votes(h) # None
    /\ \A i \in 1..Len(current_votes[g]) :
          \A j \in 1..Len(current_votes[h]) :
             current_votes[g][i].block_height = current_votes[h][j].block_height

\* C36: when every validator casts at most one vote per block hash and the
\* set of active validators has at least 4 members and does not change, two
\* different block hashes whose votes carry the same block_height never both
\* satisfy has_reached_finality at the same time.
C36_OneFinalHashPerHeight ==
    (OneVotePerValidator /\ count_active(directory) >= 4) =>
        \A g, h \in Hashes :
            (g # h /\ SameHeight(g, h)) =>
                ~(has_reached_finality(g) /\ has_reached_finality(h))

\* a hash that has reached finality has it after the step, unless the step
\* is clear_votes of the hash or changes the directory
FinalityStep ==
    \A h \in Hashes :
        (/\ has_reached_finality(h)
         /\ directory' = directory
         /\ ~(last'.op = "clear_votes" /\ last'.id = h /\ budget' # budget))
        => /\ "validators" \notin poisoned'
           /\ FinalityOf(current_votes', directory', approval_threshold', h)

\* C37: finality is stable: once has_reached_finality(H) has returned true,
\* it returns true in every later state until clear_votes(H) is called,
\* whatever further process_vote calls are made for H, with the set of
\* active validators unchanged.
C37_FinalityIsStable == [][FinalityStep]_vars

\* the validator of the last call was banned when the call was made: its
\* record had is_banned set and a banned_until after the current time
CallerWasBanned ==
    /\ last.pre # None
    /\ Unwrap(last.pre).is_banned
    /\ Unwrap(last.pre).banned_until # None
    /\ now < Unwrap(Unwrap(last.pre).banned_until)

\* C38: a ban in the reputation ledger is enforced by the consensus paths:
\* while a validator is banned (is_banned = true and the current time before
\* banned_until), verify does not return Valid for a proposal it authored and
\* process_vote does not store a vote it casts.
C38_BanIsEnforced ==
    /\ (last.op = "verify" /\ CallerWasBanned) => last.res # Valid
    /\ (last.op = "process_vote" /\ CallerWasBanned) => last.res # "Ok"

\* the clock has passed the end of the ban of the validator
BanHasRunOut(id) ==
    /\ id \in Registered
    /\ reputations[id].is_banned
    /\ reputations[id].banned_until # None
    /\ now >= Unwrap(reputations[id].banned_until)

\* the queries of the ledger report the validator as not banned
ReportedNotBanned(id) ==
    /\ ~is_banned(reputations, id)
    /\ id \in get_active_validators(reputations)

\* C39: every ban ends: after the clock passes a validator's banned_until,
\* and provided update_offline_status keeps being called periodically, the
\* validator is eventually reported as not banned by is_banned and listed by
\* get_active_validators, without any caller having to invoke
\* update_reputation for that validator.
C39_EveryBanEnds == BanHasRunOut("v1") ~> ReportedNotBanned("v1")

\* the ban of the validator is running: is_banned is set and the current time
\* is before banned_until
BanIsRunning(id) ==
    /\ id \in Registered
    /\ reputations[id].is_banned
    /\ reputations[id].banned_until # None
    /\ now < Unwrap(reputations[id].banned_until)

\* a call of one of the operations leaves every running ban set and ending
\* no earlier than before
NotShortenedBy(ops) ==
    (last'.op \in ops /\ budget' # budget) =>
        \A id \in Registered :
            BanIsRunning(id) =>
                /\ reputations'[id].is_banned
                /\ reputations'[id].banned_until # None
                /\ Unwrap(reputations'[id].banned_until) >=
                      Unwrap(reputations[id].banned_until)

\* C40: a running ban is never shortened: for a validator that is banned with
\* the current time before banned_until, no ledger operation (ban_validator
\* with any duration, update_reputation, set_reputation,
\* update_offline_status) moves banned_until to an earlier time or clears the
\* ban.
C40_NeverShortened ==
    [][NotShortenedBy({"ban_validator", "update_reputation", "set_reputation",
                       "update_offline_status"})]_vars

\* ban_validator on a running ban ends the ban at the current time plus the
\* duration, earlier than before when the duration is shorter than the rest
BanValidatorRestarts ==
    (/\ last'.op = "ban_validator"
     /\ budget' # budget
     /\ BanIsRunning(last'.id)) =>
        /\ reputations'[last'.id].is_banned
        /\ reputations'[last'.id].banned_until = Some(now + last'.arg)

\* C40 (amended): a running ban is never shortened by update_reputation,
\* set_reputation or update_offline_status: none of them moves banned_until
\* to an earlier time or clears the ban; ban_validator replaces banned_until
\* by the current time plus its duration, which may be earlier.
C40_ShortenedByBanValidatorOnly ==
    [][/\ NotShortenedBy({"update_reputation", "set_reputation",
                          "update_offline_status"})
       /\ BanValidatorRestarts]_vars

\* update_reputation has just been refused for a validator whose ban is
\* running, and the ban ends when it ended before
C40_Witness ==
    /\ last.op = "update_reputation"
    /\ last.res = "Banned"
    /\ BanIsRunning(last.id)
    /\ reputations[last.id].banned_until = Unwrap(last.pre).banned_until

-----------------------------------------------------------------------------
(* The tally specification: a directory of MaxValidators validators of     *)
(* which any number is active; they vote on one hash in the order of their *)
(* ids, each for or against, and the caller tallies at any point.          *)

\* validators of the tally specification
MaxValidators == 10

IdName == <<"v1", "v2", "v3", "v4", "v5", "v6", "v7", "v8", "v9", "v10", "v11", "v12">>

TallyIDs == {IdName[i] : i \in 1..MaxValidators}

\* the directory of TallyIDs in which the first n are active
DirectoryWithActive(n) ==
    [id \in TallyIDs |-> [is_active |-> \E i \in 1..n : IdName[i] = id]]

InitTally ==
    /\ now = 0
    /\ reputations = EmptyMap
    /\ directory \in {DirectoryWithActive(n) : n \in 0..MaxValidators}
    /\ current_votes = EmptyMap
    /\ accepted = {}
    /\ approval_threshold \in Thresholds
    /\ last = NoCall
    /\ budget = MaxValidators
    /\ threads = NoThreads
    /\ NoPanics
    /\ NoTransactions

NextTally ==
    \/ \E favor \in BOOLEAN :
          process_vote(ProposalVote("H1", 10,
              IdName[Len(VotesOf(current_votes, "H1")) + 1], favor))
    \/ call_tally_votes("H1")
    \/ call_has_reached_finality("H1")

SpecTally == InitTally /\ [][NextTally]_vars

====
